---- MODULE Spec2Model ----
(***************************************************************************)
(* A model of the N-ary tree of tree.c (struct _TreeNode and its public    *)
(* mutators).  A node is identified with the address of its heap block.    *)
(* The address of a released block can be handed out again by a later      *)
(* tree_alloc.  An access to a released block, or outside a children       *)
(* array, is undefined behaviour: the call then ends in one of the faults  *)
(* of UBFaults and nothing is said about the program afterwards.  The      *)
(* contents of a released block can only be seen by such an access, so     *)
(* the model does not keep them.                                           *)
(***************************************************************************)
EXTENDS Integers, Sequences, FiniteSets, TLC

\* Bounds of the model.
MaxNodes == 4
MaxData == 1
MaxCalls == 5
UIntBits == 3
MaxKeys == 3
MaxVal == 2
MaxElem == 3
MaxLen == 3

\* if (length == 0) length = 16, in sortedarray_new.
DefaultLength == 16

Nodes == 1..MaxNodes
Values == 1..MaxData
NULL == 0
UIntMod == 2^UIntBits
MaxDegree == MaxNodes - 1

VARIABLES
    live,       \* the set of allocated struct _TreeNode blocks
    parent,     \* TreeNode* parent
    children,   \* TreeNode** children, slots [0, outDegree); Len is outDegree
    alloced,    \* unsigned int _alloced
    data,       \* TreeNodeValue data
    idx,        \* unsigned int i
    h,          \* unsigned int h
    fault,      \* "none", or how the program ended inside the last call
    last,       \* the last public call: its name, arguments and return value
    calls,      \* the number of public calls made so far
    iter,       \* the TreeIterator of the caller, and what its walk has yielded
    ht,         \* the HashTable of the caller
    hiter,      \* the HashTableIterator of the caller, and what it has returned
    hlast,      \* the last call on the hash table
    habs,       \* the finite map the calls on the hash table describe
    sa,         \* the SortedArray of the caller
    slast,      \* the last call on the sorted array, and how it ended
    sabs        \* the values the calls on the sorted array have left in it

treevars == <<live, parent, children, alloced, data, idx, h, fault, last, calls, iter>>

\* The hash table and the sorted array, which no call on the tree touches.
containers == <<ht, hiter, hlast, habs, sa, slast, sabs>>

vars == <<treevars, containers>>

\* The heap as one record; the operations below are functions on it.
Mem ==
    [live |-> live, parent |-> parent, children |-> children,
     alloced |-> alloced, data |-> data, idx |-> idx, h |-> h]

Range(s) == {s[k] : k \in 1..Len(s)}

tree_out_degree(m, n) == Len(m.children[n])

tree_is_leaf(m, n) == tree_out_degree(m, n) = 0

\* The result of a step inside a call: the heap, a return value, and how the
\* step ended: "ok", "hang" (a loop that never ends) or "ub" (an access to a
\* released block or outside a children array).
Res(m, st) == [m |-> m, st |-> st, ret |-> NULL]

Ret(m, v) == [m |-> m, st |-> "ok", ret |-> v]

\* r2 is what follows r1 in the code: it is reached only if r1 ended "ok".
Then(r1, r2) == IF r1.st # "ok" THEN r1 ELSE r2

\* h = max(h, children[i]->h) over the children, starting from 0.
MaxChildH(m, n) ==
    LET S == {0} \cup {m.h[c] : c \in Range(m.children[n])}
    IN CHOOSE x \in S : \A y \in S : y <= x

RECURSIVE update_height_walk(_, _, _)
update_height_walk(m, n, fuel) ==
    IF n = NULL THEN Res(m, "ok")
    ELSE IF ~(({n} \cup Range(m.children[n])) \subseteq m.live) THEN Res(m, "ub")
    ELSE IF fuel = 0 THEN Res(m, "hang")
    ELSE update_height_walk([m EXCEPT !.h[n] = MaxChildH(m, n)], m.parent[n],
                            fuel - 1)

\* The parent chain is walked until NULL; a walk longer than the number of
\* addresses has met a node twice and never ends.
tree_update_height(m, n) == update_height_walk(m, n, MaxNodes)

\* ok is the answer of realloc when it is called.
tree_children_grow_min_size(m, n, s, ok) ==
    IF m.alloced[n] >= s THEN Ret(m, 1)
    ELSE IF ~ok THEN Ret(m, 0)
    ELSE Ret([m EXCEPT !.alloced[n] = s], 1)

\* The 1-based position of the first slot of p holding c, or Len + 1.
FirstSlot(m, p, c) ==
    LET cs == m.children[p]
        S == {k \in 1..Len(cs) : cs[k] = c}
    IN IF S = {} THEN Len(cs) + 1 ELSE CHOOSE k \in S : \A j \in S : k <= j

RemoveAt(cs, k) == SubSeq(cs, 1, k - 1) \o SubSeq(cs, k + 1, Len(cs))

\* The last slot of cs, from slot k on, that holds x (1-based).
LastSlotFrom(cs, k, x) ==
    CHOOSE j \in k..Len(cs) : cs[j] = x /\ \A j2 \in k..Len(cs) : cs[j2] = x => j2 <= j

\* tree_node_remove_child without "p->children[i]->i = i" (line 134).
tree_node_remove_child_noindex(m, c) ==
    LET p == m.parent[c]
        cs == m.children[p]
        od == Len(cs)
        k == FirstSlot(m, p, c)
        ncs == RemoveAt(cs, k)
    IN IF p \notin m.live THEN Res(m, "ub")
       ELSE IF od = 0 THEN Res(m, "ub")
       ELSE IF k = od + 1
       THEN IF od >= m.alloced[p] THEN Res(m, "ub")
            ELSE Res([m EXCEPT !.children[p] = SubSeq(cs, 1, od - 1)], "ok")
       ELSE Res([m EXCEPT !.children[p] = ncs], "ok")

tree_node_remove_child(m, c) ==
    LET p == m.parent[c]
        cs == m.children[p]
        od == Len(cs)
        k == FirstSlot(m, p, c)
        ncs == RemoveAt(cs, k)
        moved == {ncs[j] : j \in k..Len(ncs)}
    IN IF p \notin m.live THEN Res(m, "ub")
       ELSE IF od = 0
       THEN \* i = 0 = outDegree: outDegree - 1 wraps and the loop leaves the array
            Res(m, "ub")
       ELSE IF k = od + 1
       THEN \* c is in no slot: children[outDegree] = NULL, then outDegree--
            IF od >= m.alloced[p] THEN Res(m, "ub")
            ELSE Res([m EXCEPT !.children[p] = SubSeq(cs, 1, od - 1)], "ok")
       ELSE IF ~(moved \subseteq m.live) THEN Res(m, "ub")
       ELSE Res([m EXCEPT !.children[p] = ncs,
                          !.idx = [x \in Nodes |->
                                     IF x \in moved
                                     THEN LastSlotFrom(ncs, k, x) - 1
                                     ELSE m.idx[x]]], "ok")

\* a is the address malloc returns, NULL when it fails.
tree_alloc(m, a, d) ==
    IF a = NULL THEN Ret(m, NULL)
    ELSE Ret([m EXCEPT !.live = @ \cup {a},
                       !.parent[a] = NULL,
                       !.children[a] = <<>>,
                       !.data[a] = d,
                       !.alloced[a] = 0,
                       !.idx[a] = 0,
                       !.h[a] = 0], a)

\* free(t->children); free(t): the block of t alone is released.
tree_free(m, t) ==
    IF t = NULL THEN Res(m, "ok")
    ELSE IF t \notin m.live THEN Res(m, "ub")
    ELSE Res([m EXCEPT !.live = @ \ {t},
                       !.parent[t] = NULL,
                       !.children[t] = <<>>,
                       !.data[t] = NULL,
                       !.alloced[t] = 0,
                       !.idx[t] = 0,
                       !.h[t] = 0], "ok")

\* tree_remove without "n->parent = NULL" (line 364).
tree_remove_keeps_parent(m, n) ==
    IF m.parent[n] = NULL THEN Ret(m, n)
    ELSE LET r1 == tree_node_remove_child(m, n)
             r2 == Then(r1, tree_update_height(r1.m, r1.m.parent[n]))
         IN Then(r2, Ret([r2.m EXCEPT !.idx[n] = 0], n))

tree_remove(m, n) ==
    IF m.parent[n] = NULL THEN Ret(m, n)
    ELSE LET r1 == tree_node_remove_child(m, n)
             r2 == Then(r1, tree_update_height(r1.m, r1.m.parent[n]))
         IN Then(r2, Ret([r2.m EXCEPT !.parent[n] = NULL, !.idx[n] = 0], n))

tree_delete(m, n) ==
    LET r == tree_remove(m, n)
    IN Then(r, tree_free(r.m, r.ret))

tree_add_subtree(m, n, t, ok) ==
    IF t = NULL \/ m.parent[t] # NULL THEN Ret(m, NULL)
    ELSE LET r0 == tree_remove(m, t)
             g == tree_children_grow_min_size(r0.m, n, tree_out_degree(r0.m, n) + 1, ok)
             od == tree_out_degree(g.m, n)
         IN IF g.ret = 0 THEN Ret(g.m, t)
            ELSE tree_update_height(
                    [g.m EXCEPT !.children[n] = Append(@, t),
                                !.parent[t] = n,
                                !.idx[t] = od], n)

\* tree_add_child with "c->i = n->outDegree" after "n->outDegree++".
tree_add_child_late_index(m, n, d, a, ok) ==
    LET g == tree_children_grow_min_size(m, n, tree_out_degree(m, n) + 1, ok)
        c == tree_alloc(g.m, a, d)
        od == tree_out_degree(c.m, n)
    IN IF g.ret = 0 THEN Ret(g.m, NULL)
       ELSE IF c.ret = NULL THEN Ret(c.m, NULL)
       ELSE [tree_update_height(
                [c.m EXCEPT !.children[n] = Append(@, c.ret),
                            !.parent[c.ret] = n,
                            !.idx[c.ret] = od + 1], n) EXCEPT !.ret = c.ret]

tree_add_child(m, n, d, a, ok) ==
    LET g == tree_children_grow_min_size(m, n, tree_out_degree(m, n) + 1, ok)
        c == tree_alloc(g.m, a, d)
        od == tree_out_degree(c.m, n)
    IN IF g.ret = 0 THEN Ret(g.m, NULL)
       ELSE IF c.ret = NULL THEN Ret(c.m, NULL)
       ELSE [tree_update_height(
                [c.m EXCEPT !.children[n] = Append(@, c.ret),
                            !.parent[c.ret] = n,
                            !.idx[c.ret] = od], n) EXCEPT !.ret = c.ret]

\* The loop of insert_shift without "n->children[a + 1]->i = a + 1" (line 457).
RECURSIVE insert_shift_noindex(_, _, _, _, _)
insert_shift_noindex(m, n, arr, a, i) ==
    IF a < i THEN Ret(m, arr)
    ELSE IF a >= m.alloced[n] \/ (a + 1) % UIntMod >= m.alloced[n]
    THEN Res(m, "ub")
    ELSE insert_shift_noindex(m, n, [arr EXCEPT ![a + 2] = arr[a + 1]],
                              (a - 1) % UIntMod, i)

\* The loop "for (a = n->outDegree - 1; a >= i; a--)": slot a of the array is
\* arr[a + 1], the counter is an unsigned int.
RECURSIVE insert_shift(_, _, _, _, _)
insert_shift(m, n, arr, a, i) ==
    IF a < i THEN Ret(m, arr)
    ELSE IF a >= m.alloced[n] \/ (a + 1) % UIntMod >= m.alloced[n]
    THEN Res(m, "ub")
    ELSE IF arr[a + 1] \notin m.live THEN Res(m, "ub")
    ELSE insert_shift([m EXCEPT !.idx[arr[a + 1]] = (a + 1) % UIntMod], n,
                      [arr EXCEPT ![a + 2] = arr[a + 1]],
                      (a - 1) % UIntMod, i)

tree_insert_subtree(m, n, t, i, ok) ==
    IF t = NULL \/ i > tree_out_degree(m, n) \/ m.parent[t] # NULL
    THEN Ret(m, t)
    ELSE LET g == tree_children_grow_min_size(m, n, tree_out_degree(m, n) + 1, ok)
             od == tree_out_degree(g.m, n)
             sh == insert_shift(g.m, n, Append(g.m.children[n], NULL),
                                (od - 1) % UIntMod, i)
         IN IF g.ret = 0 THEN Ret(g.m, t)
            ELSE Then(sh, tree_update_height(
                            [sh.m EXCEPT !.children[n] = [sh.ret EXCEPT ![i + 1] = t],
                                         !.parent[t] = n,
                                         !.idx[t] = i], n))

\* tree_insert_child without the tree_free(c) of line 494.
tree_insert_child_leak(m, n, d, i, a, ok) ==
    IF i > tree_out_degree(m, n) THEN Ret(m, NULL)
    ELSE LET c == tree_alloc(m, a, d)
             r == tree_insert_subtree(c.m, n, c.ret, i, ok)
         IN IF r.st # "ok" \/ r.ret = NULL THEN r
            ELSE Ret(r.m, NULL)

tree_insert_child(m, n, d, i, a, ok) ==
    IF i > tree_out_degree(m, n) THEN Ret(m, NULL)
    ELSE LET c == tree_alloc(m, a, d)
             r == tree_insert_subtree(c.m, n, c.ret, i, ok)
         IN IF r.st # "ok" \/ r.ret = NULL THEN r
            ELSE tree_free(r.m, r.ret)

\* tree_set_subtree with "t->parent = n; t->i = i" moved above the growth of
\* the children array.
tree_set_subtree_eager(m, n, t, i, ok) ==
    IF t = NULL \/ i > tree_out_degree(m, n) \/ m.parent[t] # NULL
    THEN Ret(m, t)
    ELSE LET e == [m EXCEPT !.parent[t] = n, !.idx[t] = i]
             g == tree_children_grow_min_size(e, n, tree_out_degree(e, n) + 1, ok)
             od == tree_out_degree(g.m, n)
             f == tree_free(g.m, g.m.children[n][i + 1])
             st == IF i = od
                   THEN Res([g.m EXCEPT !.children[n] = Append(@, t)], "ok")
                   ELSE Then(f, Res([f.m EXCEPT !.children[n][i + 1] = t], "ok"))
         IN IF g.ret = 0 THEN Ret(g.m, t)
            ELSE Then(st, tree_update_height(st.m, n))

tree_set_subtree(m, n, t, i, ok) ==
    IF t = NULL \/ i > tree_out_degree(m, n) \/ m.parent[t] # NULL
    THEN Ret(m, t)
    ELSE LET g == tree_children_grow_min_size(m, n, tree_out_degree(m, n) + 1, ok)
             od == tree_out_degree(g.m, n)
             f == tree_free(g.m, g.m.children[n][i + 1])
             st == IF i = od
                   THEN Res([g.m EXCEPT !.children[n] = Append(@, t)], "ok")
                   ELSE Then(f, Res([f.m EXCEPT !.children[n][i + 1] = t], "ok"))
         IN IF g.ret = 0 THEN Ret(g.m, t)
            ELSE Then(st, tree_update_height(
                            [st.m EXCEPT !.parent[t] = n, !.idx[t] = i], n))

tree_set_child(m, n, d, i, a, ok) ==
    IF i > tree_out_degree(m, n) THEN Ret(m, NULL)
    ELSE LET c == tree_alloc(m, a, d)
             r == tree_set_subtree(c.m, n, c.ret, i, ok)
         IN IF r.st # "ok" \/ r.ret = NULL THEN r
            ELSE tree_free(r.m, r.ret)

\* The loop "while (n != NULL) { b = n; n = n->parent; }".
RECURSIVE abs_root_walk(_, _, _, _)
abs_root_walk(m, n, b, fuel) ==
    IF n = NULL THEN Ret(m, b)
    ELSE IF n \notin m.live THEN Res(m, "ub")
    ELSE IF fuel = 0 THEN Res(m, "hang")
    ELSE abs_root_walk(m, m.parent[n], n, fuel - 1)

tree_abs_root(m, n) == abs_root_walk(m, n, n, MaxNodes)

tree_parent(m, t, n) ==
    IF n = NULL THEN Ret(m, NULL)
    ELSE IF t = n THEN Ret(m, NULL)
    ELSE IF n \notin m.live THEN Res(m, "ub")
    ELSE Ret(m, m.parent[n])

\* tree_child that hands the child out as a tree of its own: its parent link
\* is cleared.
tree_child_detaches(m, n, i) ==
    IF n \notin m.live THEN Res(m, "ub")
    ELSE IF tree_out_degree(m, n) > i
    THEN Ret([m EXCEPT !.parent[m.children[n][i + 1]] = NULL], m.children[n][i + 1])
    ELSE Ret(m, NULL)

tree_child(m, n, i) ==
    IF n \notin m.live THEN Res(m, "ub")
    ELSE IF tree_out_degree(m, n) > i THEN Ret(m, m.children[n][i + 1])
    ELSE Ret(m, NULL)

tree_height(m, t) ==
    IF t = NULL THEN Ret(m, 0)
    ELSE IF t \notin m.live THEN Res(m, "ub")
    ELSE Ret(m, m.h[t])

\* The loop "while (d != NULL && d != n) d = d->parent" and the test d == n.
RECURSIVE descendant_walk(_, _, _, _)
descendant_walk(m, d, n, fuel) ==
    IF d = NULL \/ d = n THEN Ret(m, IF d = n THEN 1 ELSE 0)
    ELSE IF d \notin m.live THEN Res(m, "ub")
    ELSE IF fuel = 0 THEN Res(m, "hang")
    ELSE descendant_walk(m, m.parent[d], n, fuel - 1)

tree_is_descendant_of(m, d, n) == descendant_walk(m, d, n, MaxNodes)

tree_is_ancestor_of(m, a, n) == tree_is_descendant_of(m, n, a)

\* The loop "while (n != NULL && n != t) { n = n->parent; d++; }".
RECURSIVE depth_walk(_, _, _, _, _)
depth_walk(m, t, n, d, fuel) ==
    IF n = NULL \/ n = t THEN Ret(m, d)
    ELSE IF n \notin m.live THEN Res(m, "ub")
    ELSE IF fuel = 0 THEN Res(m, "hang")
    ELSE depth_walk(m, t, m.parent[n], (d + 1) % UIntMod, fuel - 1)

\* tree_depth that starts to count at 1, as if it counted nodes.
tree_depth_from_one(m, t, n) ==
    LET a == tree_is_ancestor_of(m, t, n)
    IN IF a.st # "ok" THEN a
       ELSE IF a.ret = 0 THEN Ret(m, 0)
       ELSE depth_walk(m, t, n, 1, MaxNodes)

tree_depth(m, t, n) ==
    LET a == tree_is_ancestor_of(m, t, n)
    IN IF a.st # "ok" THEN a
       ELSE IF a.ret = 0 THEN Ret(m, 0)
       ELSE depth_walk(m, t, n, 0, MaxNodes)

\* tree_level without the "+ 1" of line 332.
tree_level_as_depth(m, t, n) ==
    LET a == tree_is_ancestor_of(m, t, n)
        d == tree_depth(m, t, n)
    IN IF a.st # "ok" THEN a
       ELSE IF a.ret = 0 THEN Ret(m, 0)
       ELSE d

tree_level(m, t, n) ==
    LET a == tree_is_ancestor_of(m, t, n)
        d == tree_depth(m, t, n)
    IN IF a.st # "ok" THEN a
       ELSE IF a.ret = 0 THEN Ret(m, 0)
       ELSE Then(d, Ret(m, (d.ret + 1) % UIntMod))

\* The result of a call on an iterator: its fields, how the call ended, and
\* the node returned.
IRes(it, st, ret) == [it |-> it, st |-> st, ret |-> ret]

\* The result of a descent or a climb in the tree: where it stopped, and how.
At(st, n) == [st |-> st, n |-> n]

\* The loop "while (p->outDegree > 0) p = p->children[0]".
RECURSIVE first_leaf(_, _, _)
first_leaf(m, p, fuel) ==
    IF p \notin m.live THEN At("ub", NULL)
    ELSE IF m.children[p] = <<>> THEN At("ok", p)
    ELSE IF fuel = 0 THEN At("hang", NULL)
    ELSE first_leaf(m, m.children[p][1], fuel - 1)

\* The loop "while (p->outDegree > 0) p = p->children[p->outDegree - 1]".
RECURSIVE last_leaf(_, _, _)
last_leaf(m, p, fuel) ==
    IF p \notin m.live THEN At("ub", NULL)
    ELSE IF m.children[p] = <<>> THEN At("ok", p)
    ELSE IF fuel = 0 THEN At("hang", NULL)
    ELSE last_leaf(m, m.children[p][Len(m.children[p])], fuel - 1)

\* p->parent->children[k], for an unsigned k.
sibling_at(m, p, k) ==
    IF p \notin m.live \/ m.parent[p] \notin m.live THEN At("ub", NULL)
    ELSE IF k >= Len(m.children[m.parent[p]]) THEN At("ub", NULL)
    ELSE At("ok", m.children[m.parent[p]][k + 1])

\* p->i < p->parent->outDegree - 1, in unsigned arithmetic.
has_right(m, p) == m.idx[p] < (Len(m.children[m.parent[p]]) - 1) % UIntMod

\* After "i->prev = i->current; i->current = i->next".
advanced(it) == [it EXCEPT !.prev = it.current, !.current = it.next]

\* After "i->next = i->current; i->current = i->prev".
retreated(it) == [it EXCEPT !.next = it.current, !.current = it.prev]

tree_iter_has_next(it) == it.next # NULL

tree_iter_has_prev(it) == it.prev # NULL

\* The fields of an iterator after tree_iter_alloc.
tree_iter_alloc == [t |-> NULL, current |-> NULL, next |-> NULL, prev |-> NULL]

\* The payload of the current node, NULL when the current slot is empty.
tree_iter_data(m, it) ==
    IF it.current = NULL THEN IRes(it, "ok", NULL)
    ELSE IF it.current \notin m.live THEN IRes(it, "ub", NULL)
    ELSE IRes(it, "ok", m.data[it.current])

tree_iter_leaves_first(m, it, t) ==
    LET f == first_leaf(m, t, MaxNodes)
    IN IF t = NULL THEN IRes([it EXCEPT !.t = t, !.next = NULL], "ok", NULL)
       ELSE IRes([it EXCEPT !.t = t, !.next = f.n], f.st, NULL)

\* tree_iter_leaves_last with the descent of tree_iter_leaves_first
\* (children[0] on line 638).
tree_iter_leaves_last_as_first(m, it, t) ==
    LET f == first_leaf(m, t, MaxNodes)
    IN IF t = NULL THEN IRes([it EXCEPT !.t = t, !.prev = NULL], "ok", NULL)
       ELSE IRes([it EXCEPT !.t = t, !.prev = f.n], f.st, NULL)

tree_iter_leaves_last(m, it, t) ==
    LET f == last_leaf(m, t, MaxNodes)
    IN IF t = NULL THEN IRes([it EXCEPT !.t = t, !.prev = NULL], "ok", NULL)
       ELSE IRes([it EXCEPT !.t = t, !.prev = f.n], f.st, NULL)

\* The loop of lines 659-665: up from p to the first node that has a right
\* sibling ("ok"), or to NULL or the root of the walk ("end").
RECURSIVE leaves_climb_right(_, _, _, _)
leaves_climb_right(m, p, t, fuel) ==
    IF p = NULL \/ p = t THEN At("end", p)
    ELSE IF p \notin m.live THEN At("ub", NULL)
    ELSE IF m.parent[p] # NULL /\ m.parent[p] \notin m.live THEN At("ub", NULL)
    ELSE IF m.parent[p] # NULL /\ has_right(m, p) THEN At("ok", p)
    ELSE IF fuel = 0 THEN At("hang", NULL)
    ELSE leaves_climb_right(m, m.parent[p], t, fuel - 1)

\* tree_iter_leaves_next without the descent of lines 675-677.
tree_iter_leaves_next_shallow(m, it) ==
    LET a == advanced(it)
        c == leaves_climb_right(m, it.next, it.t, MaxNodes)
        s == sibling_at(m, c.n, (m.idx[c.n] + 1) % UIntMod)
    IN IF c.st = "end" THEN IRes([a EXCEPT !.next = NULL], "ok", a.current)
       ELSE IF c.st # "ok" THEN IRes(a, c.st, NULL)
       ELSE IRes([a EXCEPT !.next = s.n], s.st, a.current)

tree_iter_leaves_next(m, it) ==
    LET a == advanced(it)
        c == leaves_climb_right(m, it.next, it.t, MaxNodes)
        s == sibling_at(m, c.n, (m.idx[c.n] + 1) % UIntMod)
        f == first_leaf(m, s.n, MaxNodes)
    IN IF c.st = "end" THEN IRes([a EXCEPT !.next = NULL], "ok", a.current)
       ELSE IF c.st # "ok" THEN IRes(a, c.st, NULL)
       ELSE IF s.st # "ok" THEN IRes(a, s.st, NULL)
       ELSE IRes([a EXCEPT !.next = f.n], f.st, a.current)

\* The loop of lines 695-701 without the test "p != NULL".
RECURSIVE leaves_climb_left_nonull(_, _, _, _)
leaves_climb_left_nonull(m, p, t, fuel) ==
    IF p = t THEN At("end", p)
    ELSE IF p \notin m.live THEN At("ub", NULL)
    ELSE IF m.idx[p] > 0 THEN At("ok", p)
    ELSE IF fuel = 0 THEN At("hang", NULL)
    ELSE leaves_climb_left_nonull(m, m.parent[p], t, fuel - 1)

\* The loop of lines 695-701: up from p to the first node that has a left
\* sibling ("ok"), or to NULL or the root of the walk ("end").
RECURSIVE leaves_climb_left(_, _, _, _)
leaves_climb_left(m, p, t, fuel) ==
    IF p = NULL \/ p = t THEN At("end", p)
    ELSE IF p \notin m.live THEN At("ub", NULL)
    ELSE IF m.idx[p] > 0 THEN At("ok", p)
    ELSE IF fuel = 0 THEN At("hang", NULL)
    ELSE leaves_climb_left(m, m.parent[p], t, fuel - 1)

tree_iter_leaves_prev(m, it) ==
    LET r == retreated(it)
        c == leaves_climb_left(m, it.prev, it.t, MaxNodes)
        s == sibling_at(m, c.n, m.idx[c.n] - 1)
        f == last_leaf(m, s.n, MaxNodes)
    IN IF c.st = "end" THEN IRes([r EXCEPT !.prev = NULL], "ok", r.current)
       ELSE IF c.st # "ok" THEN IRes(r, c.st, NULL)
       ELSE IF s.st # "ok" THEN IRes(r, s.st, NULL)
       ELSE IRes([r EXCEPT !.prev = f.n], f.st, r.current)

tree_iter_parents(m, it, t, n) ==
    IRes([t |-> t, current |-> NULL, next |-> n, prev |-> NULL], "ok", NULL)

\* tree_iter_parents_next without the test "i->next != i->t" of line 738.
tree_iter_parents_next_to_root(m, it) ==
    LET a == advanced(it)
        n == it.next
    IN IF n # NULL
       THEN IF n \notin m.live THEN IRes(a, "ub", NULL)
            ELSE IRes([a EXCEPT !.next = m.parent[n]], "ok", a.current)
       ELSE IRes([a EXCEPT !.next = NULL], "ok", a.current)

tree_iter_parents_next(m, it) ==
    LET a == advanced(it)
        n == it.next
    IN IF n # NULL /\ n # it.t
       THEN IF n \notin m.live THEN IRes(a, "ub", NULL)
            ELSE IRes([a EXCEPT !.next = m.parent[n]], "ok", a.current)
       ELSE IRes([a EXCEPT !.next = NULL], "ok", a.current)

tree_preorder_walk(m, it, t) ==
    IRes([t |-> t, current |-> NULL, next |-> t, prev |-> NULL], "ok", NULL)

\* The loop of lines 775-784 without the test "i->next != i->t".
RECURSIVE preorder_climb_past_root(_, _, _, _)
preorder_climb_past_root(m, p, t, fuel) ==
    IF p = NULL THEN At("end", p)
    ELSE IF p \notin m.live THEN At("ub", NULL)
    ELSE IF m.parent[p] = NULL THEN At("end", p)
    ELSE IF m.parent[p] \notin m.live THEN At("ub", NULL)
    ELSE IF has_right(m, p) THEN sibling_at(m, p, (m.idx[p] + 1) % UIntMod)
    ELSE IF fuel = 0 THEN At("hang", NULL)
    ELSE preorder_climb_past_root(m, m.parent[p], t, fuel - 1)

\* The loop of lines 775-784: up from the leaf p to the first node that has a
\* right sibling, which is the result ("ok"), or to a parentless node or the
\* root of the walk ("end").
RECURSIVE preorder_climb(_, _, _, _)
preorder_climb(m, p, t, fuel) ==
    IF p = NULL THEN At("end", p)
    ELSE IF p \notin m.live THEN At("ub", NULL)
    ELSE IF m.parent[p] = NULL \/ p = t THEN At("end", p)
    ELSE IF m.parent[p] \notin m.live THEN At("ub", NULL)
    ELSE IF has_right(m, p) THEN sibling_at(m, p, (m.idx[p] + 1) % UIntMod)
    ELSE IF fuel = 0 THEN At("hang", NULL)
    ELSE preorder_climb(m, m.parent[p], t, fuel - 1)

\* tree_preorder_walk_next with the test "i->next == NULL" of line 764 made
\* before the slots are shifted.
tree_preorder_walk_next_early_return(m, it) ==
    LET a == advanced(it)
        n == it.next
        c == preorder_climb(m, n, it.t, MaxNodes)
    IN IF n = NULL THEN IRes(it, "ok", NULL)
       ELSE IF n \notin m.live THEN IRes(a, "ub", NULL)
       ELSE IF m.children[n] # <<>>
       THEN IRes([a EXCEPT !.next = m.children[n][1]], "ok", a.current)
       ELSE IF c.st = "end" THEN IRes([a EXCEPT !.next = NULL], "ok", a.current)
       ELSE IF c.st = "ok" THEN IRes([a EXCEPT !.next = c.n], "ok", a.current)
       ELSE IRes(a, c.st, NULL)

tree_preorder_walk_next(m, it) ==
    LET a == advanced(it)
        n == it.next
        c == preorder_climb(m, n, it.t, MaxNodes)
    IN IF n = NULL THEN IRes(a, "ok", a.current)
       ELSE IF n \notin m.live THEN IRes(a, "ub", NULL)
       ELSE IF m.children[n] # <<>>
       THEN IRes([a EXCEPT !.next = m.children[n][1]], "ok", a.current)
       ELSE IF c.st = "end" THEN IRes([a EXCEPT !.next = NULL], "ok", a.current)
       ELSE IF c.st = "ok" THEN IRes([a EXCEPT !.next = c.n], "ok", a.current)
       ELSE IRes(a, c.st, NULL)

\* tree_preorder_walk_prev with "i->current = i->prev" after the new prev is
\* computed.
tree_preorder_walk_prev_late(m, it) ==
    LET r == [it EXCEPT !.next = it.current]
        p == it.prev
        s == sibling_at(m, p, m.idx[p] - 1)
        f == last_leaf(m, s.n, MaxNodes)
    IN IF p = it.t \/ p = NULL
       THEN IRes([r EXCEPT !.prev = NULL, !.current = NULL], "ok", NULL)
       ELSE IF p \notin m.live THEN IRes(r, "ub", NULL)
       ELSE IF m.idx[p] > 0
       THEN IF s.st # "ok" THEN IRes(r, s.st, NULL)
            ELSE IRes([r EXCEPT !.prev = f.n, !.current = f.n], f.st, f.n)
       ELSE IRes([r EXCEPT !.prev = m.parent[p], !.current = m.parent[p]], "ok",
                 m.parent[p])

tree_preorder_walk_prev(m, it) ==
    LET r == retreated(it)
        p == it.prev
        s == sibling_at(m, p, m.idx[p] - 1)
        f == last_leaf(m, s.n, MaxNodes)
    IN IF p = it.t \/ p = NULL THEN IRes([r EXCEPT !.prev = NULL], "ok", r.current)
       ELSE IF p \notin m.live THEN IRes(r, "ub", NULL)
       ELSE IF m.idx[p] > 0
       THEN IF s.st # "ok" THEN IRes(r, s.st, NULL)
            ELSE IRes([r EXCEPT !.prev = f.n], f.st, r.current)
       ELSE IRes([r EXCEPT !.prev = m.parent[p]], "ok", r.current)

tree_postorder_walk(m, it, t) ==
    LET f == first_leaf(m, t, MaxNodes)
        z == [t |-> t, current |-> NULL, next |-> t, prev |-> NULL]
    IN IF t = NULL THEN IRes(z, "ok", NULL)
       ELSE IRes([z EXCEPT !.next = f.n], f.st, NULL)

\* tree_postorder_walk_next without the test "i->next == i->t" of line 839.
tree_postorder_walk_next_past_root(m, it) ==
    LET a == advanced(it)
        n == it.next
        s == sibling_at(m, n, (m.idx[n] + 1) % UIntMod)
        f == first_leaf(m, s.n, MaxNodes)
    IN IF n = NULL THEN IRes([a EXCEPT !.next = NULL], "ok", a.current)
       ELSE IF n \notin m.live THEN IRes(a, "ub", NULL)
       ELSE IF m.parent[n] = NULL
       THEN IRes([a EXCEPT !.next = NULL], "ok", a.current)
       ELSE IF m.parent[n] \notin m.live THEN IRes(a, "ub", NULL)
       ELSE IF has_right(m, n)
       THEN IF s.st # "ok" THEN IRes(a, s.st, NULL)
            ELSE IRes([a EXCEPT !.next = f.n], f.st, a.current)
       ELSE IRes([a EXCEPT !.next = m.parent[n]], "ok", a.current)

\* tree_postorder_walk_next without the descent of lines 846-848.
tree_postorder_walk_next_shallow(m, it) ==
    LET a == advanced(it)
        n == it.next
        s == sibling_at(m, n, (m.idx[n] + 1) % UIntMod)
    IN IF n = NULL THEN IRes([a EXCEPT !.next = NULL], "ok", a.current)
       ELSE IF n \notin m.live THEN IRes(a, "ub", NULL)
       ELSE IF m.parent[n] = NULL \/ n = it.t
       THEN IRes([a EXCEPT !.next = NULL], "ok", a.current)
       ELSE IF m.parent[n] \notin m.live THEN IRes(a, "ub", NULL)
       ELSE IF has_right(m, n)
       THEN IRes([a EXCEPT !.next = s.n], s.st, a.current)
       ELSE IRes([a EXCEPT !.next = m.parent[n]], "ok", a.current)

tree_postorder_walk_next(m, it) ==
    LET a == advanced(it)
        n == it.next
        s == sibling_at(m, n, (m.idx[n] + 1) % UIntMod)
        f == first_leaf(m, s.n, MaxNodes)
    IN IF n = NULL THEN IRes([a EXCEPT !.next = NULL], "ok", a.current)
       ELSE IF n \notin m.live THEN IRes(a, "ub", NULL)
       ELSE IF m.parent[n] = NULL \/ n = it.t
       THEN IRes([a EXCEPT !.next = NULL], "ok", a.current)
       ELSE IF m.parent[n] \notin m.live THEN IRes(a, "ub", NULL)
       ELSE IF has_right(m, n)
       THEN IF s.st # "ok" THEN IRes(a, s.st, NULL)
            ELSE IRes([a EXCEPT !.next = f.n], f.st, a.current)
       ELSE IRes([a EXCEPT !.next = m.parent[n]], "ok", a.current)

\* The loop of lines 875-885 followed by the descent to the last leaf that
\* tree_preorder_walk_prev makes (lines 803-805).
RECURSIVE postorder_climb_descends(_, _, _, _)
postorder_climb_descends(m, p, t, fuel) ==
    IF p \notin m.live THEN At("ub", NULL)
    ELSE IF m.parent[p] = NULL \/ p = t THEN At("end", p)
    ELSE IF m.idx[p] > 0
    THEN LET s == sibling_at(m, p, m.idx[p] - 1)
         IN IF s.st # "ok" THEN s ELSE last_leaf(m, s.n, MaxNodes)
    ELSE IF fuel = 0 THEN At("hang", NULL)
    ELSE postorder_climb_descends(m, m.parent[p], t, fuel - 1)

\* The loop of lines 875-885: up from the leaf p to the first node that has a
\* left sibling, which is the result ("ok"), or to a parentless node or the
\* root of the walk ("end").
RECURSIVE postorder_climb(_, _, _, _)
postorder_climb(m, p, t, fuel) ==
    IF p \notin m.live THEN At("ub", NULL)
    ELSE IF m.parent[p] = NULL \/ p = t THEN At("end", p)
    ELSE IF m.idx[p] > 0 THEN sibling_at(m, p, m.idx[p] - 1)
    ELSE IF fuel = 0 THEN At("hang", NULL)
    ELSE postorder_climb(m, m.parent[p], t, fuel - 1)

\* Lines 872 and 880 return i->prev, the others i->current.
tree_postorder_walk_prev(m, it) ==
    LET r == retreated(it)
        p == it.prev
        c == postorder_climb(m, p, it.t, MaxNodes)
        lc == m.children[p][Len(m.children[p])]
    IN IF p = NULL THEN IRes(r, "ok", r.current)
       ELSE IF p \notin m.live THEN IRes(r, "ub", NULL)
       ELSE IF m.children[p] # <<>> THEN IRes([r EXCEPT !.prev = lc], "ok", lc)
       ELSE IF c.st = "end" THEN IRes([r EXCEPT !.prev = NULL], "ok", r.current)
       ELSE IF c.st = "ok" THEN IRes([r EXCEPT !.prev = c.n], "ok", c.n)
       ELSE IRes(r, c.st, NULL)

----------------------------------------------------------------------------
\* The program as a state machine: one action per public call.

EmptyMem ==
    [live |-> {}, parent |-> [x \in Nodes |-> NULL],
     children |-> [x \in Nodes |-> <<>>], alloced |-> [x \in Nodes |-> 0],
     data |-> [x \in Nodes |-> NULL], idx |-> [x \in Nodes |-> 0],
     h |-> [x \in Nodes |-> 0]]

\* A public call: its name, its arguments, whether every malloc and realloc it
\* may reach succeeds (mem), the parent and the stored index of its subject
\* (t, or n when there is no t) and the out-degree of n when it was made, and
\* its return value.
Call(op, n, t, i, d, mem, ret) ==
    [op |-> op, n |-> n, t |-> t, i |-> i, d |-> d, mem |-> mem, ret |-> ret,
     par |-> IF t # NULL THEN parent[t] ELSE IF n # NULL THEN parent[n] ELSE NULL,
     slot |-> IF t # NULL THEN idx[t] ELSE IF n # NULL THEN idx[n] ELSE 0,
     od |-> IF n # NULL THEN Len(children[n]) ELSE 0]

Install(m) ==
    /\ live' = m.live
    /\ parent' = m.parent
    /\ children' = m.children
    /\ alloced' = m.alloced
    /\ data' = m.data
    /\ idx' = m.idx
    /\ h' = m.h

\* What undefined behaviour does to the program: it is ended, or it goes on
\* in a state of which nothing is known.
UBFaults == {"segv", "corrupt"}

\* How a call ends: it returns; or it never returns (a loop without end); or
\* its behaviour is undefined.
Outcome(op, n, t, i, d, mem, r) ==
    /\ UNCHANGED containers
    /\ calls' = calls + 1
    /\ iter' = iter
    /\ \/ /\ r.st = "ok"
          /\ Install(r.m)
          /\ fault' = "none"
          /\ last' = Call(op, n, t, i, d, mem, r.ret)
       \/ /\ r.st = "hang"
          /\ Install(r.m)
          /\ fault' = "hang"
          /\ last' = Call(op, n, t, i, d, mem, NULL)
       \/ /\ r.st = "ub"
          /\ Install(Mem)
          /\ fault' \in UBFaults
          /\ last' = Call(op, n, t, i, d, mem, NULL)

\* The iterator after tree_iter_alloc: no walk is begun.  walk names the
\* protocol of the initializer that was called, seq lists the nodes the walk
\* has yielded while only forward steps were made since a first-initializer
\* (fwd), or only backward steps since a last-initializer (bwd).
NoIter ==
    [walk |-> "none", t |-> NULL, current |-> NULL, next |-> NULL, prev |-> NULL,
     seq |-> <<>>, fwd |-> FALSE, bwd |-> FALSE]

\* The fields of struct _TreeIterator.
ItOf(x) == [t |-> x.t, current |-> x.current, next |-> x.next, prev |-> x.prev]

\* What a step adds to the nodes yielded: the node returned by a forward step
\* made while tree_iter_has_next was true, or by a backward step made while
\* tree_iter_has_prev was true.
Yield(kind, r) ==
    IF kind \in {"first", "last"} THEN <<>>
    ELSE IF kind = "data" THEN iter.seq
    ELSE IF kind = "next" /\ iter.fwd
    THEN IF iter.next # NULL THEN Append(iter.seq, r.ret) ELSE iter.seq
    ELSE IF kind = "prev" /\ iter.bwd
    THEN IF iter.prev # NULL THEN Append(iter.seq, r.ret) ELSE iter.seq
    ELSE <<>>

\* How a call on the iterator ends; the tree is not written.
IterOutcome(op, walk, kind, r) ==
    /\ UNCHANGED <<live, parent, children, alloced, data, idx, h, calls, containers>>
    /\ \/ /\ r.st = "ok"
          /\ fault' = "none"
          /\ iter' = [walk |-> walk, t |-> r.it.t, current |-> r.it.current,
                      next |-> r.it.next, prev |-> r.it.prev,
                      seq |-> Yield(kind, r),
                      fwd |-> (kind = "first" \/ (kind \in {"next", "data"} /\ iter.fwd)),
                      bwd |-> (kind = "last" \/ (kind \in {"prev", "data"} /\ iter.bwd))]
          /\ last' = Call(op, NULL, r.it.t, 0, NULL, TRUE, r.ret)
       \/ /\ r.st = "hang"
          /\ fault' = "hang"
          /\ iter' = iter
          /\ last' = Call(op, NULL, iter.t, 0, NULL, TRUE, NULL)
       \/ /\ r.st = "ub"
          /\ fault' \in UBFaults
          /\ iter' = iter
          /\ last' = Call(op, NULL, iter.t, 0, NULL, TRUE, NULL)

----------------------------------------------------------------------------
\* The hash table of hash-table.c: an array of table_size chains of entries,
\* each entry a key/value pair.  A chain is the sequence of its pairs from
\* the head; table[i] = << >> is a NULL head.  The keys are compared by
\* identity and the values are never HASH_TABLE_NULL, which is NULL.

HKeys == 1..MaxKeys
HValues == 1..MaxVal

\* static const unsigned int hash_table_primes[]: the first sizes of the
\* table.  The list of the source begins 193, 389; here it is cut to two
\* sizes a handful of keys can fill, so that every branch of
\* hash_table_allocate_table is taken.
hash_table_primes == <<3, 7>>

hash_table_num_primes == Len(hash_table_primes)

\* The hash functions a caller passes.  Key k hashes to c * k: with c = 0
\* all keys share one chain, with c = 21 they share one in the tables of
\* the two listed sizes and are spread by the next.  Or it hashes to half
\* of k: then some keys share a chain and others do not, in every table.
HashFuncs ==
    {[k \in HKeys |-> c * k] : c \in {0, 1, 21}} \cup {[k \in HKeys |-> k \div 2]}

equal_func(a, b) == IF a = b THEN 1 ELSE 0

NullPair == [key |-> NULL, value |-> NULL]

\* No table: hash_table is NULL.
NoTable ==
    [hash_table |-> NULL, table |-> << >>, table_size |-> 0,
     hash_func |-> [k \in HKeys |-> 0], entries |-> 0, prime_index |-> 0]

\* calloc returns memory (ok) or NULL; table_size is written before it.
hash_table_allocate_table(t, ok) ==
    LET new_table_size ==
            IF t.prime_index < hash_table_num_primes
            THEN hash_table_primes[t.prime_index + 1]
            ELSE t.entries * 10
    IN  [t |-> [t EXCEPT !.table_size = new_table_size,
                         !.table = IF ok THEN [c \in 0..(new_table_size - 1) |-> << >>]
                                   ELSE << >>],
         ret |-> IF ok THEN 1 ELSE 0]

\* okStruct and okTable are the outcomes of the malloc and the calloc.
hash_table_new(hash_func, okStruct, okTable) ==
    IF ~okStruct THEN NoTable
    ELSE LET a == hash_table_allocate_table(
                      [NoTable EXCEPT !.hash_table = 1, !.hash_func = hash_func,
                                      !.entries = 0, !.prime_index = 0], okTable)
         IN  IF a.ret <= 0 THEN NoTable ELSE a.t

\* index = hash_func(key) % table_size
hash_index(t, key) == t.hash_func[key] % t.table_size

\* The inner loop of hash_table_enlarge: each entry of an old chain, from
\* its head, is put at the head of its chain in the new table.
RECURSIVE enlarge_chain(_, _)
enlarge_chain(t, chain) ==
    IF chain = << >> THEN t
    ELSE LET index == hash_index(t, Head(chain).key)
         IN  enlarge_chain([t EXCEPT !.table[index] = <<Head(chain)>> \o @],
                           Tail(chain))

\* The outer loop: for (i = 0; i < old_table_size; ++i).
RECURSIVE enlarge_table(_, _, _, _)
enlarge_table(t, old_table, old_table_size, i) ==
    IF i >= old_table_size THEN t
    ELSE enlarge_table(enlarge_chain(t, old_table[i]), old_table,
                       old_table_size, i + 1)

\* hash_table_enlarge without lines 767 and 768: after a failed allocation
\* table_size and prime_index stay those of the table that was not made.
hash_table_enlarge_no_restore(t, ok) ==
    LET old_table == t.table
        old_table_size == t.table_size
        a == hash_table_allocate_table([t EXCEPT !.prime_index = @ + 1], ok)
    IN  IF a.ret <= 0
        THEN [t |-> [a.t EXCEPT !.table = old_table], ret |-> 0]
        ELSE [t |-> enlarge_table(a.t, old_table, old_table_size, 0), ret |-> 1]

hash_table_enlarge(t, ok) ==
    LET old_table == t.table
        old_table_size == t.table_size
        old_prime_index == t.prime_index
        a == hash_table_allocate_table([t EXCEPT !.prime_index = @ + 1], ok)
    IN  IF a.ret <= 0
        THEN [t |-> [a.t EXCEPT !.table = old_table,
                                !.table_size = old_table_size,
                                !.prime_index = old_prime_index],
              ret |-> 0]
        ELSE [t |-> enlarge_table(a.t, old_table, old_table_size, 0), ret |-> 1]

\* The position in a chain of the first entry whose key equals key, 0 if
\* the walk reaches the NULL that ends the chain.
RECURSIVE chain_find(_, _, _)
chain_find(chain, key, p) ==
    IF p > Len(chain) THEN 0
    ELSE IF equal_func(chain[p].key, key) # 0 THEN p
    ELSE chain_find(chain, key, p + 1)

\* hash_table_insert without the walk of lines 851 to 890: a new entry is
\* made for a key the chain already holds.
hash_table_insert_no_search(t, key, value, okTable, okEntry) ==
    LET grow == (t.entries * 3) \div t.table_size > 0
        e == IF grow THEN hash_table_enlarge(t, okTable) ELSE [t |-> t, ret |-> 1]
        enl == IF ~grow THEN "none" ELSE IF e.ret <= 0 THEN "failed" ELSE "ok"
        index == hash_index(e.t, key)
    IN  IF e.ret <= 0 THEN [t |-> e.t, ret |-> 0, enl |-> enl]
        ELSE IF ~okEntry THEN [t |-> e.t, ret |-> 0, enl |-> enl]
        ELSE [t |-> [e.t EXCEPT !.table[index] = <<[key |-> key, value |-> value]>> \o @,
                                !.entries = @ + 1],
              ret |-> 1, enl |-> enl]

\* okTable is the outcome of the calloc of an enlargement and okEntry that
\* of the malloc of a new entry, for the calls that come to them.  enl tells
\* what the enlargement did: "none", "ok" or "failed".
hash_table_insert(t, key, value, okTable, okEntry) ==
    LET grow == (t.entries * 3) \div t.table_size > 0
        e == IF grow THEN hash_table_enlarge(t, okTable) ELSE [t |-> t, ret |-> 1]
        enl == IF ~grow THEN "none" ELSE IF e.ret <= 0 THEN "failed" ELSE "ok"
        index == hash_index(e.t, key)
        p == chain_find(e.t.table[index], key, 1)
    IN  IF e.ret <= 0 THEN [t |-> e.t, ret |-> 0, enl |-> enl]
        ELSE IF p # 0
        THEN [t |-> [e.t EXCEPT !.table[index][p] = [key |-> key, value |-> value]],
              ret |-> 1, enl |-> enl]
        ELSE IF ~okEntry THEN [t |-> e.t, ret |-> 0, enl |-> enl]
        ELSE [t |-> [e.t EXCEPT !.table[index] = <<[key |-> key, value |-> value]>> \o @,
                                !.entries = @ + 1],
              ret |-> 1, enl |-> enl]

hash_table_lookup(t, key) ==
    LET index == hash_index(t, key)
        p == chain_find(t.table[index], key, 1)
    IN  IF p # 0 THEN t.table[index][p].value ELSE NULL

hash_table_remove(t, key) ==
    LET index == hash_index(t, key)
        chain == t.table[index]
        p == chain_find(chain, key, 1)
    IN  IF p # 0
        THEN [t |-> [t EXCEPT !.table[index] =
                                  SubSeq(chain, 1, p - 1) \o SubSeq(chain, p + 1, Len(chain)),
                              !.entries = @ - 1],
              ret |-> 1]
        ELSE [t |-> t, ret |-> 0]

hash_table_num_entries(t) == t.entries

\* An entry is named by its chain and its position in it; NULL is no entry.
NullEntry == [chain |-> 0, pos |-> 0]

\* The first chain at or after chain that is not empty, table_size if none.
RECURSIVE chain_scan(_, _)
chain_scan(t, chain) ==
    IF chain >= t.table_size THEN chain
    ELSE IF t.table[chain] # << >> THEN chain
    ELSE chain_scan(t, chain + 1)

\* next_chain is written only if an entry is found.
hash_table_iterate(t, it) ==
    LET chain == chain_scan(t, 0)
    IN  IF chain < t.table_size
        THEN [next_entry |-> [chain |-> chain, pos |-> 1], next_chain |-> chain]
        ELSE [next_entry |-> NullEntry, next_chain |-> it.next_chain]

hash_table_iter_has_more(it) == IF it.next_entry # NullEntry THEN 1 ELSE 0

\* hash_table_iter_next without line 1103: next_chain stays the chain of
\* the first entry.
hash_table_iter_next_stale_chain(t, it) ==
    IF it.next_entry = NullEntry THEN [it |-> it, pair |-> NullPair]
    ELSE LET current_entry == it.next_entry
             cur_chain == t.table[current_entry.chain]
             chain == chain_scan(t, it.next_chain + 1)
         IN  [it |-> IF current_entry.pos < Len(cur_chain)
                     THEN [it EXCEPT !.next_entry.pos = @ + 1]
                     ELSE [next_entry |-> IF chain < t.table_size
                                          THEN [chain |-> chain, pos |-> 1]
                                          ELSE NullEntry,
                           next_chain |-> it.next_chain],
              pair |-> cur_chain[current_entry.pos]]

hash_table_iter_next(t, it) ==
    IF it.next_entry = NullEntry THEN [it |-> it, pair |-> NullPair]
    ELSE LET current_entry == it.next_entry
             cur_chain == t.table[current_entry.chain]
             chain == chain_scan(t, it.next_chain + 1)
         IN  [it |-> IF current_entry.pos < Len(cur_chain)
                     THEN [it EXCEPT !.next_entry.pos = @ + 1]
                     ELSE [next_entry |-> IF chain < t.table_size
                                          THEN [chain |-> chain, pos |-> 1]
                                          ELSE NullEntry,
                           next_chain |-> chain],
              pair |-> cur_chain[current_entry.pos]]

\* The HashTableIterator of the caller before hash_table_iterate, and after
\* the table is written: the caller does not use it (on is FALSE).  got
\* lists the pairs hash_table_iter_next returned while
\* hash_table_iter_has_more was true.
NoHashIter ==
    [next_entry |-> NullEntry, next_chain |-> 0, on |-> FALSE, got |-> << >>]

HashItOf(x) == [next_entry |-> x.next_entry, next_chain |-> x.next_chain]

HCall(op, key, value, ret, pair, enl) ==
    [op |-> op, key |-> key, value |-> value, ret |-> ret, pair |-> pair,
     enl |-> enl]

\* The finite map the calls made so far describe, NULL for a key that is
\* not in it, and whether every allocation made so far has succeeded.
NoMap == [val |-> [k \in HKeys |-> NULL], nofail |-> TRUE]


----------------------------------------------------------------------------
\* The sorted array of sortedarray.c: data is the block of _alloced slots,
\* numbered from 0, of which the first length hold the elements.  A slot
\* that was never written holds NULL; no call reads one.

SValues == 1..MaxElem

\* The callbacks of the caller: the elements are ordered by half their
\* value, so that different elements can compare equal.
cmp_func(a, b) ==
    IF a \div 2 < b \div 2 THEN -1 ELSE IF a \div 2 > b \div 2 THEN 1 ELSE 0

\* No array: sortedarray is NULL.
NoArray == [sortedarray |-> NULL, data |-> << >>, length |-> 0, _alloced |-> 0]

\* A new block of n slots that keeps the first slots of block d.
Block(d, n) == [k \in 0..(n - 1) |-> IF k \in DOMAIN d THEN d[k] ELSE NULL]

\* okArray and okStruct are the outcomes of the two malloc calls.
sortedarray_new(length, okArray, okStruct) ==
    LET len == IF length = 0 THEN DefaultLength ELSE length
    IN  IF ~okArray \/ ~okStruct THEN NoArray
        ELSE [sortedarray |-> 1, data |-> Block(<< >>, len), length |-> 0,
              _alloced |-> len]

sortedarray_length(a) == IF a.sortedarray = NULL THEN 0 ELSE a.length

sortedarray_get(a, i) ==
    IF a.sortedarray = NULL THEN NULL
    ELSE IF i < a.length THEN a.data[i] ELSE NULL

\* memmove(&data[dst], &data[src], n * sizeof(SortedArrayValue)).  A copy
\* that leaves the block is undefined behaviour.
memmove(a, dst, src, n) ==
    IF n > 0 /\ (dst + n > a._alloced \/ src + n > a._alloced)
    THEN [a |-> a, st |-> "ub"]
    ELSE [a |-> [a EXCEPT !.data = [k \in DOMAIN a.data |->
                                       IF k >= dst /\ k < dst + n
                                       THEN a.data[k - dst + src] ELSE a.data[k]]],
          st |-> "ok"]

\* index + length and length -= length are taken in unsigned int.
sortedarray_remove_range(a, index, length) ==
    IF a.sortedarray = NULL THEN [a |-> a, st |-> "ok"]
    ELSE IF index > a.length \/ (index + length) % UIntMod > a.length
    THEN [a |-> a, st |-> "ok"]
    ELSE LET m == memmove(a, index, (index + length) % UIntMod,
                          (a.length - ((index + length) % UIntMod)) % UIntMod)
         IN  IF m.st # "ok" THEN m
             ELSE [a |-> [m.a EXCEPT !.length = (@ - length) % UIntMod], st |-> "ok"]

sortedarray_remove(a, index) == sortedarray_remove_range(a, index, 1)

\* The loop of sortedarray_insert; its value is index when the loop is left.
RECURSIVE insert_search(_, _, _, _, _)
insert_search(a, d, left, right, index) ==
    IF left = right THEN index
    ELSE LET ix == (left + right) \div 2
             order == cmp_func(d, a.data[ix])
         IN  IF order < 0 THEN insert_search(a, d, left, ix, ix)
             ELSE IF order > 0 THEN insert_search(a, d, ix + 1, right, ix)
             ELSE ix

\* sortedarray_insert without lines 293 to 296: the element is put at the
\* last position the loop looked at.
sortedarray_insert_at_found(a, d, okRealloc) ==
    IF a.sortedarray = NULL THEN [a |-> a, st |-> "ok", ret |-> -1]
    ELSE LET right == IF a.length > 1 THEN a.length ELSE 0
             index == insert_search(a, d, 0, right, 0)
             grow == a.length + 1 > a._alloced
             newsize == a._alloced * 2
             b == IF grow THEN [a EXCEPT !.data = Block(a.data, newsize),
                                         !._alloced = newsize]
                  ELSE a
             m == memmove(b, index + 1, index, b.length - index)
         IN  IF grow /\ ~okRealloc THEN [a |-> a, st |-> "ok", ret |-> 0]
             ELSE IF m.st # "ok" THEN [a |-> a, st |-> "ub", ret |-> 0]
             ELSE [a |-> [m.a EXCEPT !.data[index] = d, !.length = @ + 1],
                   st |-> "ok", ret |-> 1]

\* okRealloc is the outcome of the realloc, for the calls that come to it.
sortedarray_insert(a, d, okRealloc) ==
    IF a.sortedarray = NULL THEN [a |-> a, st |-> "ok", ret |-> -1]
    ELSE LET right == IF a.length > 1 THEN a.length ELSE 0
             found == insert_search(a, d, 0, right, 0)
             index == IF a.length > 0 /\ cmp_func(d, a.data[found]) > 0
                      THEN found + 1 ELSE found
             grow == a.length + 1 > a._alloced
             newsize == a._alloced * 2
             b == IF grow THEN [a EXCEPT !.data = Block(a.data, newsize),
                                         !._alloced = newsize]
                  ELSE a
             m == memmove(b, index + 1, index, b.length - index)
         IN  IF grow /\ ~okRealloc THEN [a |-> a, st |-> "ok", ret |-> 0]
             ELSE IF m.st # "ok" THEN [a |-> a, st |-> "ub", ret |-> 0]
             ELSE [a |-> [m.a EXCEPT !.data[index] = d, !.length = @ + 1],
                   st |-> "ok", ret |-> 1]

sortedarray_clear(a) ==
    IF a.sortedarray # NULL THEN [a EXCEPT !.length = 0] ELSE a

\* The elements of the array, in the order of their positions.
Elements(a) == [p \in 1..a.length |-> a.data[p - 1]]

\* How often each value occurs in a sequence.
BagOf(s) == [v \in SValues |-> Cardinality({p \in DOMAIN s : s[p] = v})]

SCall(op, index, length, d, ret, how) ==
    [op |-> op, index |-> index, length |-> length, data |-> d, ret |-> ret,
     fault |-> how]

\* Whether every range passed to sortedarray_remove_range was inside the
\* array, and while that is so, the values inserted and not removed, as the
\* calls made so far tell.
NoBag == [bag |-> [v \in SValues |-> 0], valid |-> TRUE]


----------------------------------------------------------------------------
Init ==
    /\ live = EmptyMem.live
    /\ parent = EmptyMem.parent
    /\ children = EmptyMem.children
    /\ alloced = EmptyMem.alloced
    /\ data = EmptyMem.data
    /\ idx = EmptyMem.idx
    /\ h = EmptyMem.h
    /\ fault = "none"
    /\ last = Call("init", NULL, NULL, 0, NULL, TRUE, NULL)
    /\ calls = 0
    /\ iter = NoIter
    /\ ht = NoTable
    /\ hiter = NoHashIter
    /\ hlast = HCall("init", NULL, NULL, NULL, NullPair, "none")
    /\ habs = NoMap
    /\ sa = NoArray
    /\ slast = SCall("init", NULL, NULL, NULL, NULL, "none")
    /\ sabs = NoBag

\* The addresses malloc can return: a block that is not allocated, or NULL.
Fresh == (Nodes \ live) \cup {NULL}

\* The program runs on while it has not ended and the model's budget of calls
\* is not used up.
Running == fault = "none" /\ calls < MaxCalls

\* The children arrays of the model hold at most MaxDegree slots.
Room(n) == Len(children[n]) < MaxDegree

\* The answers realloc can give to a call that adds a slot to n: it is only
\* called when the array is full.
Realloc(n) == IF alloced[n] >= Len(children[n]) + 1 THEN {TRUE} ELSE BOOLEAN

\* The offsets tried on n: every valid one, and the first beyond.
Offsets(n) == 0..(Len(children[n]) + 1)

Alloc ==
    /\ Running
    /\ \E a \in Fresh, d \in Values :
          Outcome("alloc", NULL, NULL, 0, d, a # NULL, tree_alloc(Mem, a, d))

Free ==
    /\ Running
    /\ \E t \in live : Outcome("free", NULL, t, 0, NULL, TRUE, tree_free(Mem, t))

Remove ==
    /\ Running
    /\ \E n \in live : Outcome("remove", n, NULL, 0, NULL, TRUE, tree_remove(Mem, n))

Delete ==
    /\ Running
    /\ \E n \in live : Outcome("delete", n, NULL, 0, NULL, TRUE, tree_delete(Mem, n))

AddSubtree ==
    /\ Running
    /\ \E n \in live : \E t \in live \cup {NULL}, ok \in Realloc(n) :
          /\ Room(n)
          /\ Outcome("add_subtree", n, t, 0, NULL, ok, tree_add_subtree(Mem, n, t, ok))

AddChild ==
    /\ Running
    /\ \E n \in live : \E d \in Values, a \in Fresh, ok \in Realloc(n) :
          /\ Room(n)
          /\ Outcome("add_child", n, NULL, 0, d, ok /\ a # NULL, tree_add_child(Mem, n, d, a, ok))

InsertSubtree ==
    /\ Running
    /\ \E n \in live : \E t \in live \cup {NULL}, i \in Offsets(n), ok \in Realloc(n) :
          /\ Room(n)
          /\ Outcome("insert_subtree", n, t, i, NULL, ok,
                     tree_insert_subtree(Mem, n, t, i, ok))

InsertChild ==
    /\ Running
    /\ \E n \in live : \E d \in Values, i \in Offsets(n), a \in Fresh, ok \in Realloc(n) :
          /\ Room(n)
          /\ Outcome("insert_child", n, NULL, i, d, ok /\ a # NULL,
                     tree_insert_child(Mem, n, d, i, a, ok))

SetSubtree ==
    /\ Running
    /\ \E n \in live : \E t \in live \cup {NULL}, i \in Offsets(n), ok \in Realloc(n) :
          /\ i = Len(children[n]) => Room(n)
          /\ Outcome("set_subtree", n, t, i, NULL, ok,
                     tree_set_subtree(Mem, n, t, i, ok))

SetChild ==
    /\ Running
    /\ \E n \in live : \E d \in Values, i \in Offsets(n), a \in Fresh, ok \in Realloc(n) :
          /\ i = Len(children[n]) => Room(n)
          /\ Outcome("set_child", n, NULL, i, d, ok /\ a # NULL,
                     tree_set_child(Mem, n, d, i, a, ok))

\* The queries on the parent chain; in the record of the call t is the tree
\* (the possible ancestor) and n the node (the possible descendant).
IsDescendantOf ==
    /\ Running
    /\ iter.walk = "none"
    /\ \E d \in live, a \in live :
          Outcome("is_descendant_of", d, a, 0, NULL, TRUE,
                  tree_is_descendant_of(Mem, d, a))

Depth ==
    /\ Running
    /\ iter.walk = "none"
    /\ \E t \in live, n \in live :
          Outcome("depth", n, t, 0, NULL, TRUE, tree_depth(Mem, t, n))

Level ==
    /\ Running
    /\ iter.walk = "none"
    /\ \E t \in live, n \in live :
          Outcome("level", n, t, 0, NULL, TRUE, tree_level(Mem, t, n))

\* The queries on one node and its links.
AbsRoot ==
    /\ Running
    /\ iter.walk = "none"
    /\ \E n \in live \cup {NULL} :
          Outcome("abs_root", n, NULL, 0, NULL, TRUE, tree_abs_root(Mem, n))

Parent ==
    /\ Running
    /\ iter.walk = "none"
    /\ \E t \in live \cup {NULL}, n \in live \cup {NULL} :
          Outcome("parent", n, t, 0, NULL, TRUE, tree_parent(Mem, t, n))

Child ==
    /\ Running
    /\ iter.walk = "none"
    /\ \E n \in live : \E i \in Offsets(n) :
          Outcome("child", n, NULL, i, NULL, TRUE, tree_child(Mem, n, i))

Height ==
    /\ Running
    /\ iter.walk = "none"
    /\ \E t \in live \cup {NULL} :
          Outcome("height", NULL, t, 0, NULL, TRUE, tree_height(Mem, t))

Next ==
    \/ Alloc
    \/ Free
    \/ Remove
    \/ Delete
    \/ AddSubtree
    \/ AddChild
    \/ InsertSubtree
    \/ InsertChild
    \/ SetSubtree
    \/ SetChild

Spec == Init /\ [][Next]_vars

\* The calls the index claim is about: every mutator, and tree_alloc to make
\* the subtrees they are given; tree_free is not called on its own.
NextMutators ==
    \/ Alloc
    \/ Remove
    \/ Delete
    \/ AddSubtree
    \/ AddChild
    \/ InsertSubtree
    \/ InsertChild
    \/ SetSubtree
    \/ SetChild

SpecMutators == Init /\ [][NextMutators]_vars

----------------------------------------------------------------------------
\* The readers of a tree: the queries and the iterators, on trees built by
\* calls that succeed.  While a walk is under way the tree is not modified.

Build ==
    /\ iter.walk = "none"
    /\ Alloc \/ AddChild \/ AddSubtree
    /\ last'.mem
    /\ fault' = "none"

PreorderWalk ==
    /\ fault = "none" /\ iter.walk = "none"
    /\ \E t \in live \cup {NULL} :
          IterOutcome("preorder_walk", "preorder", "first",
                      tree_preorder_walk(Mem, ItOf(iter), t))

PreorderWalkNext ==
    /\ fault = "none" /\ iter.walk = "preorder"
    /\ IterOutcome("preorder_walk_next", "preorder", "next",
                   tree_preorder_walk_next(Mem, ItOf(iter)))

PreorderWalkPrev ==
    /\ fault = "none" /\ iter.walk = "preorder"
    /\ IterOutcome("preorder_walk_prev", "preorder", "prev",
                   tree_preorder_walk_prev(Mem, ItOf(iter)))

PostorderWalk ==
    /\ fault = "none" /\ iter.walk = "none"
    /\ \E t \in live \cup {NULL} :
          IterOutcome("postorder_walk", "postorder", "first",
                      tree_postorder_walk(Mem, ItOf(iter), t))

PostorderWalkNext ==
    /\ fault = "none" /\ iter.walk = "postorder"
    /\ IterOutcome("postorder_walk_next", "postorder", "next",
                   tree_postorder_walk_next(Mem, ItOf(iter)))

PostorderWalkPrev ==
    /\ fault = "none" /\ iter.walk = "postorder"
    /\ IterOutcome("postorder_walk_prev", "postorder", "prev",
                   tree_postorder_walk_prev(Mem, ItOf(iter)))

IterLeavesFirst ==
    /\ fault = "none" /\ iter.walk = "none"
    /\ \E t \in live \cup {NULL} :
          IterOutcome("iter_leaves_first", "leaves", "first",
                      tree_iter_leaves_first(Mem, ItOf(iter), t))

IterLeavesNext ==
    /\ fault = "none" /\ iter.walk = "leaves"
    /\ IterOutcome("iter_leaves_next", "leaves", "next",
                   tree_iter_leaves_next(Mem, ItOf(iter)))

IterLeavesPrev ==
    /\ fault = "none" /\ iter.walk = "leaves"
    /\ IterOutcome("iter_leaves_prev", "leaves", "prev",
                   tree_iter_leaves_prev(Mem, ItOf(iter)))

IterLeavesLast ==
    /\ fault = "none" /\ iter.walk = "none"
    /\ \E t \in live \cup {NULL} :
          IterOutcome("iter_leaves_last", "leaves", "last",
                      tree_iter_leaves_last(Mem, ItOf(iter), t))

\* tree_iter_parents takes a tree and a node, neither NULL.
IterParents ==
    /\ fault = "none" /\ iter.walk = "none"
    /\ \E t \in live, n \in live :
          IterOutcome("iter_parents", "parents", "first",
                      tree_iter_parents(Mem, ItOf(iter), t, n))

IterParentsNext ==
    /\ fault = "none" /\ iter.walk = "parents"
    /\ IterOutcome("iter_parents_next", "parents", "next",
                   tree_iter_parents_next(Mem, ItOf(iter)))

\* tree_iter_data, asked of an iterator whose walk has begun.
IterData ==
    /\ fault = "none" /\ iter.walk # "none"
    /\ IterOutcome("iter_data", iter.walk, "data", tree_iter_data(Mem, ItOf(iter)))

NextReaders ==
    \/ Build
    \/ IsDescendantOf
    \/ Depth
    \/ Level
    \/ AbsRoot
    \/ Parent
    \/ Child
    \/ Height
    \/ PreorderWalk
    \/ PreorderWalkNext
    \/ PreorderWalkPrev
    \/ PostorderWalk
    \/ PostorderWalkNext
    \/ PostorderWalkPrev
    \/ IterLeavesFirst
    \/ IterLeavesLast
    \/ IterLeavesNext
    \/ IterLeavesPrev
    \/ IterParents
    \/ IterParentsNext
    \/ IterData

SpecReaders == Init /\ [][NextReaders]_vars

----------------------------------------------------------------------------
\* An iterator that is used again: the initializers are also called on an
\* iterator whose walk has begun, which they find as the walk left it.

LeavesFirstAgain ==
    /\ fault = "none" /\ iter.walk # "none"
    /\ \E t \in live \cup {NULL} :
          IterOutcome("iter_leaves_first", "leaves", "first",
                      tree_iter_leaves_first(Mem, ItOf(iter), t))

LeavesLastAgain ==
    /\ fault = "none" /\ iter.walk # "none"
    /\ \E t \in live \cup {NULL} :
          IterOutcome("iter_leaves_last", "leaves", "last",
                      tree_iter_leaves_last(Mem, ItOf(iter), t))

ParentsAgain ==
    /\ fault = "none" /\ iter.walk # "none"
    /\ \E t \in live, n \in live :
          IterOutcome("iter_parents", "parents", "first",
                      tree_iter_parents(Mem, ItOf(iter), t, n))

PreorderWalkAgain ==
    /\ fault = "none" /\ iter.walk # "none"
    /\ \E t \in live \cup {NULL} :
          IterOutcome("preorder_walk", "preorder", "first",
                      tree_preorder_walk(Mem, ItOf(iter), t))

PostorderWalkAgain ==
    /\ fault = "none" /\ iter.walk # "none"
    /\ \E t \in live \cup {NULL} :
          IterOutcome("postorder_walk", "postorder", "first",
                      tree_postorder_walk(Mem, ItOf(iter), t))

NextReuse ==
    \/ NextReaders
    \/ LeavesFirstAgain
    \/ LeavesLastAgain
    \/ ParentsAgain
    \/ PreorderWalkAgain
    \/ PostorderWalkAgain

SpecReuse == Init /\ [][NextReuse]_vars

----------------------------------------------------------------------------
\* The calls on the hash table.

HashNew ==
    /\ ht.hash_table = NULL
    /\ \E f \in HashFuncs, okStruct \in BOOLEAN, okTable \in BOOLEAN :
          /\ ht' = hash_table_new(f, okStruct, okTable)
          /\ hlast' = HCall("new", NULL, NULL, ht'.hash_table, NullPair, "none")
    /\ habs' = NoMap
    /\ hiter' = NoHashIter
    /\ UNCHANGED <<treevars, sa, slast, sabs>>

HashInsert ==
    /\ ht.hash_table # NULL
    /\ \E key \in HKeys, value \in HValues, okTable \in BOOLEAN, okEntry \in BOOLEAN :
          LET r == hash_table_insert(ht, key, value, okTable, okEntry)
          IN  /\ ht' = r.t
              /\ hlast' = HCall("insert", key, value, r.ret, NullPair, r.enl)
              /\ habs' = [val |-> IF r.ret # 0 THEN [habs.val EXCEPT ![key] = value]
                                  ELSE habs.val,
                          nofail |-> habs.nofail /\ r.ret # 0]
    /\ hiter' = NoHashIter
    /\ UNCHANGED <<treevars, sa, slast, sabs>>

HashRemove ==
    /\ ht.hash_table # NULL
    /\ \E key \in HKeys :
          LET r == hash_table_remove(ht, key)
          IN  /\ ht' = r.t
              /\ hlast' = HCall("remove", key, NULL, r.ret, NullPair, "none")
              /\ habs' = [habs EXCEPT !.val[key] = NULL]
    /\ hiter' = NoHashIter
    /\ UNCHANGED <<treevars, sa, slast, sabs>>

HashLookup ==
    /\ ht.hash_table # NULL
    /\ \E key \in HKeys :
          hlast' = HCall("lookup", key, NULL, hash_table_lookup(ht, key), NullPair, "none")
    /\ UNCHANGED <<treevars, ht, hiter, habs, sa, slast, sabs>>

HashNumEntries ==
    /\ ht.hash_table # NULL
    /\ hlast' = HCall("num_entries", NULL, NULL, hash_table_num_entries(ht), NullPair, "none")
    /\ UNCHANGED <<treevars, ht, hiter, habs, sa, slast, sabs>>

HashIterate ==
    /\ ht.hash_table # NULL
    /\ LET it == hash_table_iterate(ht, HashItOf(hiter))
       IN  hiter' = [next_entry |-> it.next_entry, next_chain |-> it.next_chain,
                     on |-> TRUE, got |-> << >>]
    /\ hlast' = HCall("iterate", NULL, NULL, NULL, NullPair, "none")
    /\ UNCHANGED <<treevars, ht, habs, sa, slast, sabs>>

HashIterNext ==
    /\ ht.hash_table # NULL
    /\ hiter.on
    /\ LET r == hash_table_iter_next(ht, HashItOf(hiter))
       IN  /\ hiter' = [next_entry |-> r.it.next_entry, next_chain |-> r.it.next_chain,
                        on |-> TRUE,
                        got |-> IF hash_table_iter_has_more(HashItOf(hiter)) # 0
                                THEN Append(hiter.got, r.pair) ELSE hiter.got]
           /\ hlast' = HCall("iter_next", NULL, NULL, NULL, r.pair, "none")
    /\ UNCHANGED <<treevars, ht, habs, sa, slast, sabs>>

NextHash ==
    \/ HashNew
    \/ HashInsert
    \/ HashRemove
    \/ HashLookup
    \/ HashNumEntries
    \/ HashIterate
    \/ HashIterNext

SpecHash == Init /\ [][NextHash]_vars

----------------------------------------------------------------------------
\* How a call on the array ends.
SortedOutcome(op, index, length, d, r, ret, bag, valid) ==
    /\ \/ /\ r.st = "ok"
          /\ sa' = r.a
          /\ slast' = SCall(op, index, length, d, ret, "none")
       \/ /\ r.st = "ub"
          /\ sa' = sa
          /\ \E f \in UBFaults : slast' = SCall(op, index, length, d, ret, f)
    /\ sabs' = IF sabs.valid /\ valid THEN [bag |-> bag, valid |-> TRUE]
               ELSE [NoBag EXCEPT !.valid = FALSE]
    /\ UNCHANGED <<treevars, ht, hiter, hlast, habs>>

\* The program runs on while no call has ended in undefined behaviour; the
\* model follows it while the array is no longer than MaxLen.
SortedRunning ==
    sa.sortedarray # NULL /\ slast.fault = "none" /\ sa.length <= MaxLen

SortedNew ==
    /\ sa.sortedarray = NULL
    /\ \E length \in 0..MaxLen, okArray \in BOOLEAN, okStruct \in BOOLEAN :
          LET a == sortedarray_new(length, okArray, okStruct)
          IN  SortedOutcome("new", NULL, length, NULL, [a |-> a, st |-> "ok"],
                            a.sortedarray, NoBag.bag, TRUE)

SortedInsert ==
    /\ SortedRunning
    /\ sa.length < MaxLen
    /\ \E d \in SValues, okRealloc \in BOOLEAN :
          LET r == sortedarray_insert(sa, d, okRealloc)
          IN  SortedOutcome("insert", NULL, NULL, d, r, r.ret,
                            IF r.ret = 1 THEN [sabs.bag EXCEPT ![d] = @ + 1]
                            ELSE sabs.bag,
                            TRUE)

\* The elements at the positions from index on, length of them at most.
Removed(index, length) ==
    SubSeq(Elements(sa), index + 1,
           IF index + length < sa.length THEN index + length ELSE sa.length)

SortedRemove ==
    /\ SortedRunning
    /\ \E index \in 0..MaxLen \cup {UIntMod - 1} :
          SortedOutcome("remove", index, 1, NULL, sortedarray_remove(sa, index), NULL,
                        [v \in SValues |-> sabs.bag[v] - BagOf(Removed(index, 1))[v]],
                        TRUE)

SortedRemoveRange ==
    /\ SortedRunning
    /\ \E index \in 0..MaxLen, length \in 0..MaxLen \cup {UIntMod - 1} :
          SortedOutcome("remove_range", index, length, NULL,
                        sortedarray_remove_range(sa, index, length), NULL,
                        IF index + length <= sa.length
                        THEN [v \in SValues |->
                                 sabs.bag[v] - BagOf(Removed(index, length))[v]]
                        ELSE sabs.bag,
                        index + length <= sa.length)

SortedClear ==
    /\ SortedRunning
    /\ SortedOutcome("clear", NULL, NULL, NULL,
                     [a |-> sortedarray_clear(sa), st |-> "ok"], NULL,
                     NoBag.bag, TRUE)

SortedGet ==
    /\ SortedRunning
    /\ \E i \in 0..MaxLen :
          SortedOutcome("get", i, NULL, NULL, [a |-> sa, st |-> "ok"],
                        sortedarray_get(sa, i), sabs.bag, TRUE)

NextSorted ==
    \/ SortedNew
    \/ SortedInsert
    \/ SortedRemove
    \/ SortedRemoveRange
    \/ SortedClear
    \/ SortedGet

SpecSorted == Init /\ [][NextSorted]_vars

----------------------------------------------------------------------------
\* Notions the claims are stated with.

\* The heap after the step.
MemNext ==
    [live |-> live', parent |-> parent', children |-> children',
     alloced |-> alloced', data |-> data', idx |-> idx', h |-> h']

\* The nodes met by following parent links from n, at most fuel of them.
RECURSIVE Up(_, _, _)
Up(m, n, fuel) ==
    IF m.parent[n] = NULL \/ fuel = 0 THEN {}
    ELSE {m.parent[n]} \cup Up(m, m.parent[n], fuel - 1)

Ancestors(m, n) == Up(m, n, MaxNodes)

\* The nodes of the subtree of t, t included: those with t on their parent chain.
Subtree(m, t) == {t} \cup {x \in Nodes : t \in Ancestors(m, x)}

\* The slots of p that hold c.
SlotsOf(m, p, c) == {k \in 1..Len(m.children[p]) : m.children[p][k] = c}

\* A forest: every pointer of an allocated node leads to an allocated node,
\* the children of a node are the nodes that name it as parent, each in one
\* slot, and no node is its own ancestor.
WellFormed(m) ==
    \A n \in m.live :
        /\ m.parent[n] \in m.live \cup {NULL}
        /\ Range(m.children[n]) \subseteq m.live
        /\ n \notin Ancestors(m, n)
        /\ \A c \in Range(m.children[n]) : m.parent[c] = n
        /\ m.parent[n] # NULL => Cardinality(SlotsOf(m, m.parent[n], n)) = 1

\* Every child stores the offset of its slot.
IndexOK(m) ==
    \A p \in m.live : \A k \in 1..Len(m.children[p]) :
        /\ m.children[p][k] \in m.live
        /\ m.idx[m.children[p][k]] = k - 1

\* The step is the public call op.
Called(op) == calls' = calls + 1 /\ last'.op = op

\* The last call was op and it returned.
Returned(op) == last.op = op /\ fault = "none"

----------------------------------------------------------------------------
\* C1: after any sequence of mutators the cached height of every node is 0 if
\* it has no children and otherwise 1 + the greatest cached height of its
\* children (so a root with only leaf children has height 1).
C1_HeightInvariant ==
    fault = "none" =>
        \A n \in live :
            h[n] = IF children[n] = <<>> THEN 0
                   ELSE 1 + (CHOOSE x \in {h[c] : c \in Range(children[n])} :
                                \A y \in {h[c] : c \in Range(children[n])} : y <= x)

\* C2: after any sequence of add, insert, set, remove and delete calls that
\* returned, the node in slot i of every allocated node is allocated and
\* stores the index i.
C2_IndexInvariant == fault = "none" => IndexOK(Mem)

\* C2 witness: an insertion in the middle of a children array has returned
\* NULL, with the inserted node in its slot and a child moved up by one slot.
C2_Witness ==
    /\ Returned("insert_subtree")
    /\ last.ret = NULL /\ last.t # NULL
    /\ last.i >= 1 /\ last.i < last.od
    /\ children[last.n][last.i + 1] = last.t

\* C3: no node is reachable from itself by parent links, whatever public
\* mutator was called and with whatever arguments, so that every walk up the
\* parent chain ends.
C3_Acyclic == fault # "hang" /\ \A n \in live : n \notin Ancestors(Mem, n)

\* C4: for allocated nodes c and p, c is in a slot of p exactly if the parent
\* of c is p, and every allocated node is in at most one slot.
C4_SingleOwnership ==
    fault = "none" =>
        /\ \A c \in live, p \in live :
              (SlotsOf(Mem, p, c) # {}) <=> (parent[c] = p)
        /\ \A c \in live :
              Cardinality({pk \in live \X (1..MaxDegree) :
                              pk[2] \in SlotsOf(Mem, pk[1], c)}) <= 1

\* C5: tree_add_subtree(n, t) with t a child of another node p, in a forest and
\* with no allocation failure, moves t: it returns NULL, t is no longer in a
\* slot of p, and t is the last child of n with parent n and the index of
\* that slot (so NULL is not returned while t is left where it was).
C5_AddSubtreeRelocates ==
    [][(/\ Called("add_subtree")
        /\ WellFormed(Mem)
        /\ last'.t # NULL
        /\ last'.mem
        /\ parent[last'.t] \notin {NULL, last'.n}
        /\ last'.n \notin Subtree(Mem, last'.t))
       => LET n == last'.n
              t == last'.t
          IN /\ fault' = "none"
             /\ last'.ret = NULL
             /\ SlotsOf(MemNext, parent[t], t) = {}
             /\ parent'[t] = n
             /\ children'[n] # <<>>
             /\ children'[n][Len(children'[n])] = t
             /\ idx'[t] = Len(children'[n]) - 1]_vars

\* C6: tree_remove(n) in a forest whose children store their offsets: if n is
\* in slot k of its parent p, then p keeps its other children in the same
\* order, one fewer, each storing its new offset, n has no parent, the
\* children and the payload of n are as before, and n is returned; if n has no
\* parent the heap is unchanged and n is returned.
C6_RemoveContract ==
    [][(/\ Called("remove")
        /\ WellFormed(Mem)
        /\ IndexOK(Mem))
       => LET n == last'.n
              p == parent[n]
              k == CHOOSE j \in SlotsOf(Mem, p, n) : TRUE
              old == children[p]
              new == children'[p]
          IN /\ fault' = "none"
             /\ last'.ret = n
             /\ IF p = NULL THEN MemNext = Mem
                ELSE /\ Len(new) = Len(old) - 1
                     /\ \A j \in 1..Len(new) :
                           /\ new[j] = IF j < k THEN old[j] ELSE old[j + 1]
                           /\ idx'[new[j]] = j - 1
                     /\ parent'[n] = NULL
                     /\ children'[n] = children[n]
                     /\ data'[n] = data[n]
                     /\ live' = live]_vars

\* C6 witness: a node that was not the last child of its parent has been
\* removed, so that a sibling moved down, and it took its own child along.
C6_Witness ==
    /\ Returned("remove")
    /\ last.par # NULL
    /\ last.ret = last.n
    /\ parent[last.n] = NULL
    /\ children[last.n] # <<>>
    /\ last.slot < Len(children[last.par])

\* C7: tree_insert_subtree(n, t, i) in a forest, with t parentless, no
\* allocation failure and 0 <= i <= out_degree(n) (i = 0 and a childless n
\* included), returns NULL, and the children of n are then the old ones with
\* t put in at offset i, t has parent n, and the out-degree is one larger.
C7_InsertSubtree ==
    [][(/\ Called("insert_subtree")
        /\ WellFormed(Mem)
        /\ last'.t # NULL
        /\ last'.mem
        /\ parent[last'.t] = NULL
        /\ last'.i <= Len(children[last'.n])
        /\ last'.n \notin Subtree(Mem, last'.t))
       => LET n == last'.n
              t == last'.t
              i == last'.i
              old == children[n]
          IN /\ fault' = "none"
             /\ last'.ret = NULL
             /\ children'[n] = SubSeq(old, 1, i) \o <<t>> \o SubSeq(old, i + 1, Len(old))
             /\ parent'[t] = n]_vars

\* C8: after tree_free(t), and after tree_delete(t), in a forest, t and every
\* descendant of t are released.
C8_FreeReleasesSubtree ==
    [][((Called("free") \/ Called("delete")) /\ WellFormed(Mem))
       => LET t == IF last'.op = "free" THEN last'.t ELSE last'.n
          IN /\ fault' = "none"
             /\ Subtree(Mem, t) \cap live' = {}]_vars

\* C9: tree_free(t) on a node t of a forest that has a parent takes t out of
\* the children of that parent, whose out-degree is then one smaller.
C9_FreeDetaches ==
    [][(/\ Called("free")
        /\ WellFormed(Mem)
        /\ parent[last'.t] # NULL)
       => LET p == parent[last'.t]
          IN /\ fault' = "none"
             /\ SlotsOf(MemNext, p, last'.t) = {}
             /\ Len(children'[p]) = Len(children[p]) - 1]_vars

\* C10: tree_set_subtree(n, t, i) in a forest, with t parentless and no
\* allocation failure, returns NULL with t at offset i of n, parent n and
\* index i: appended if i = out_degree(n), and otherwise in place of the
\* child that was at i, which is released, the other children being as before.
C10_SetSubtree ==
    [][(/\ Called("set_subtree")
        /\ WellFormed(Mem)
        /\ last'.t # NULL
        /\ last'.mem
        /\ parent[last'.t] = NULL
        /\ last'.i <= Len(children[last'.n]))
       => LET n == last'.n
              t == last'.t
              i == last'.i
              old == children[n]
          IN /\ fault' = "none"
             /\ last'.ret = NULL
             /\ parent'[t] = n
             /\ idx'[t] = i
             /\ IF i = Len(old) THEN children'[n] = Append(old, t)
                ELSE /\ children'[n] = [old EXCEPT ![i + 1] = t]
                     /\ old[i + 1] \notin live']_vars

\* C11: tree_insert_subtree and tree_set_subtree called with an offset beyond
\* the out-degree of n or with a t that has a parent, and tree_add_subtree,
\* tree_insert_subtree and tree_set_subtree when the growth of the children
\* array fails, return t and leave the parent, the children, the index and
\* the cached height of every node as they were.
C11_RejectedCommitNothing ==
    [][(/\ \/ /\ Called("insert_subtree") \/ Called("set_subtree")
              /\ last'.t # NULL
              /\ \/ last'.i > Len(children[last'.n])
                 \/ parent[last'.t] # NULL
           \/ /\ \/ Called("add_subtree")
                 \/ Called("insert_subtree")
                 \/ Called("set_subtree")
              /\ last'.t # NULL
              /\ parent[last'.t] = NULL
              /\ last'.i <= Len(children[last'.n])
              /\ ~last'.mem)
       => /\ fault' = "none"
          /\ last'.ret = last'.t
          /\ parent' = parent
          /\ children' = children
          /\ idx' = idx
          /\ h' = h]_vars

\* C11 witness: tree_set_subtree was to replace a child of n, the growth of
\* the array failed, and t was handed back.
C11_Witness ==
    /\ Returned("set_subtree")
    /\ ~last.mem
    /\ last.t # NULL /\ last.ret = last.t
    /\ last.t # last.n
    /\ last.par = NULL
    /\ last.i < last.od
    /\ parent[last.t] = NULL

\* C12: tree_insert_child and tree_set_child, called with an offset up to the
\* out-degree of n and with no allocation failure, when they return, return
\* the new node, which is then child i of n and stores the data.
C12_ChildWrappersReturnNode ==
    [][(/\ Called("insert_child") \/ Called("set_child")
        /\ WellFormed(Mem)
        /\ last'.i <= Len(children[last'.n])
        /\ last'.mem
        /\ fault' = "none")
       => /\ last'.ret # NULL
          /\ last'.ret \in live'
          /\ children'[last'.n][last'.i + 1] = last'.ret
          /\ data'[last'.ret] = last'.d]_vars

\* C13: whenever tree_add_child, tree_insert_child or tree_set_child fails
\* (offset beyond the out-degree, no memory for the node, or no memory for
\* the children array) it returns NULL, the allocated nodes are those
\* allocated before, and parents, children and indices are unchanged.
C13_FailedWrappersLeakNothing ==
    [][(/\ \/ Called("add_child")
           \/ Called("insert_child")
           \/ Called("set_child")
        /\ \/ last'.i > Len(children[last'.n])
           \/ ~last'.mem)
       => /\ fault' = "none"
          /\ last'.ret = NULL
          /\ live' = live
          /\ parent' = parent
          /\ children' = children
          /\ idx' = idx
          /\ data' = data]_vars

\* C13 witness: tree_insert_child at a valid offset of a node with a child has
\* failed for want of memory, and all four addresses are still free or in use
\* as before.
C13_Witness ==
    /\ Returned("insert_child")
    /\ ~last.mem
    /\ last.i >= 1 /\ last.i <= last.od
    /\ last.ret = NULL
    /\ Len(children[last.n]) = last.od

\* C14: tree_add_child(n, data) without allocation failure, in a forest,
\* returns a new leaf that stores data and is the last child of n, with parent
\* n and index the former out-degree of n; the former children of n keep
\* their slots.
C14_AddChildAppends ==
    [][(/\ Called("add_child")
        /\ WellFormed(Mem)
        /\ last'.mem)
       => LET n == last'.n
              c == last'.ret
          IN /\ fault' = "none"
             /\ c \in live' \ live
             /\ live' = live \cup {c}
             /\ children'[n] = Append(children[n], c)
             /\ children'[c] = <<>>
             /\ parent'[c] = n
             /\ idx'[c] = Len(children[n])
             /\ data'[c] = last'.d
             /\ \A x \in live \ {n} : children'[x] = children[x]]_vars

\* C14 witness: the third tree_add_child in a row on a node: its out-degree is
\* 3 and the children are in the order they were added.
C14_Witness ==
    /\ Returned("add_child")
    /\ last.od = 2
    /\ last.ret # NULL
    /\ Len(children[last.n]) = 3
    /\ children[last.n][3] = last.ret
    /\ \A k \in 1..3 : idx[children[last.n][k]] = k - 1

\* C15: tree_add_subtree(p, t) of a parentless t, with p not in the subtree of
\* t, followed by tree_remove(t): t is parentless again, every node has the
\* children and the payload it had before t was attached, and the children of
\* p have the indices they had.
C15_AttachDetachRoundTrip ==
    [][(/\ Called("add_subtree")
        /\ WellFormed(Mem)
        /\ IndexOK(Mem)
        /\ last'.t # NULL
        /\ last'.mem
        /\ parent[last'.t] = NULL
        /\ last'.n \notin Subtree(Mem, last'.t))
       => LET p == last'.n
              t == last'.t
              r == tree_remove(MemNext, t)
          IN /\ fault' = "none"
             /\ last'.ret = NULL
             /\ parent'[t] = p
             /\ r.st = "ok"
             /\ r.ret = t
             /\ r.m.live = live
             /\ r.m.parent = parent
             /\ r.m.children = children
             /\ r.m.data = data
             /\ \A c \in Range(children[p]) : r.m.idx[c] = idx[c]]_vars

\* C15 witness: a tree t with a child of its own has been attached to a node p
\* that had a child already.
C15_Witness ==
    /\ Returned("add_subtree")
    /\ last.t # NULL /\ last.ret = NULL
    /\ last.par = NULL
    /\ last.od >= 1
    /\ parent[last.t] = last.n
    /\ children[last.t] # <<>>

\* The number of parent links from n up to t, for n in the subtree of t: the
\* ancestors of n that are in that subtree.
Links(m, n, t) == Cardinality(Ancestors(m, n) \cap Subtree(m, t))

\* C16: for t and a node n of the subtree of t, in a forest:
\* tree_is_descendant_of(n, t) is true, tree_depth(t, n) is the number of
\* parent links from n up to t, and tree_level(t, n) is tree_depth(t, n) + 1.
C16_DepthLevel ==
    (/\ fault = "none"
     /\ last.op \in {"is_descendant_of", "depth", "level"}
     /\ WellFormed(Mem)
     /\ last.n \in Subtree(Mem, last.t))
    => /\ last.op = "is_descendant_of" => last.ret > 0
       /\ last.op = "depth" => last.ret = Links(Mem, last.n, last.t)
       /\ last.op = "level" =>
             /\ last.ret = Links(Mem, last.n, last.t) + 1
             /\ last.ret = tree_depth(Mem, last.t, last.n).ret + 1

\* C16 witness: the depth of a grandchild of t has been asked for.
C16_Witness ==
    /\ Returned("depth")
    /\ last.ret = 2
    /\ parent[last.n] # NULL
    /\ parent[parent[last.n]] = last.t

\* C17, as stated: tree_depth(t, n) and tree_level(t, n) both return 0 when n
\* is t and when n is not in the subtree of t.
C17_SentinelBoth ==
    (/\ fault = "none"
     /\ last.op \in {"depth", "level"}
     /\ WellFormed(Mem)
     /\ last.n = last.t \/ last.n \notin Subtree(Mem, last.t))
    => last.ret = 0

\* C17, amended: tree_depth(t, n) returns 0 when n is t and when n is not in
\* the subtree of t; tree_level(t, n) returns 0 only when n is not in the
\* subtree of t, and 1 when n is t.
C17_SentinelDepthOnly ==
    (/\ fault = "none"
     /\ last.op \in {"depth", "level"}
     /\ WellFormed(Mem)
     /\ last.n = last.t \/ last.n \notin Subtree(Mem, last.t))
    => /\ last.op = "depth" => last.ret = 0
       /\ last.op = "level" => last.ret = IF last.n = last.t THEN 1 ELSE 0

\* C17 witness: the level of the root of a tree with a child has been asked
\* for, and is 1.
C17_Witness ==
    /\ Returned("level")
    /\ last.n = last.t
    /\ last.ret = 1
    /\ children[last.t] # <<>>

\* A forward pass of the walk begun by the named initializer on a tree t has
\* come to its end: tree_iter_has_next is false.
PassDone(walk) ==
    /\ fault = "none"
    /\ iter.walk = walk
    /\ iter.fwd
    /\ iter.t # NULL
    /\ ~tree_iter_has_next(ItOf(iter))

\* C18: tree_preorder_walk(i, t) and tree_preorder_walk_next until
\* tree_iter_has_next is false yield the k nodes of the subtree of t, each
\* once, every node before its descendants and siblings in child order.
C18_PreorderPass ==
    PassDone("preorder") =>
        LET q == iter.seq
            S == Subtree(Mem, iter.t)
        IN /\ Len(q) = Cardinality(S)
           /\ Range(q) = S
           /\ \A a, b \in 1..Len(q) :
                 /\ a < b => q[a] # q[b]
                 /\ q[a] \in Ancestors(Mem, q[b]) => a < b
                 /\ (/\ q[a] # iter.t /\ q[b] # iter.t
                     /\ parent[q[a]] = parent[q[b]]
                     /\ idx[q[a]] < idx[q[b]]) => a < b

\* C18 witness: a pass over a tree of four nodes, the first child of the root
\* having a child and a right sibling.
C18_Witness ==
    /\ PassDone("preorder")
    /\ Len(iter.seq) = 4
    /\ parent[iter.seq[3]] = iter.seq[2]
    /\ parent[iter.seq[4]] = iter.seq[1]

\* C19: tree_postorder_walk(i, t) and tree_postorder_walk_next until
\* tree_iter_has_next is false yield the k nodes of the subtree of t, each
\* once, the leftmost leaf first, every node after its descendants and t last.
C19_PostorderPass ==
    PassDone("postorder") =>
        LET q == iter.seq
            S == Subtree(Mem, iter.t)
        IN /\ Len(q) = Cardinality(S)
           /\ Range(q) = S
           /\ children[q[1]] = <<>>
           /\ \A y \in (({q[1]} \cup Ancestors(Mem, q[1])) \cap S) \ {iter.t} :
                 idx[y] = 0
           /\ q[Len(q)] = iter.t
           /\ \A a, b \in 1..Len(q) :
                 /\ a < b => q[a] # q[b]
                 /\ q[a] \in Ancestors(Mem, q[b]) => b < a

\* C19 witness: a pass over a tree of four nodes, the second child of the root
\* having a child.
C19_Witness ==
    /\ PassDone("postorder")
    /\ Len(iter.seq) = 4
    /\ parent[iter.seq[1]] = iter.seq[4]
    /\ parent[iter.seq[2]] = iter.seq[3]

\* C20: in a state of a preorder, postorder or leaves walk reached by forward
\* steps, with a current node, an advance followed by a retreat leaves the
\* current slot as it was before the advance, and the next slot holding the
\* node the advance had made current.
C20_RetreatUndoesAdvance ==
    [][(/\ vars' # vars
        /\ last'.op \in {"preorder_walk_next", "postorder_walk_next",
                         "iter_leaves_next"}
        /\ iter.fwd
        /\ iter.current # NULL)
       => LET r == IF iter.walk = "preorder"
                   THEN tree_preorder_walk_prev(MemNext, ItOf(iter'))
                   ELSE IF iter.walk = "postorder"
                   THEN tree_postorder_walk_prev(MemNext, ItOf(iter'))
                   ELSE tree_iter_leaves_prev(MemNext, ItOf(iter'))
          IN /\ fault' = "none"
             /\ r.st = "ok"
             /\ r.it.current = iter.current
             /\ r.it.next = iter'.current]_vars

\* C20 witness: after forward steps of a postorder walk a retreat has been
\* made, and the iterator has a node in each of its three slots.
C20_Witness ==
    /\ Returned("postorder_walk_prev")
    /\ ~iter.fwd
    /\ iter.prev # NULL
    /\ iter.current # NULL
    /\ iter.next # NULL

\* The step functions of the four walks.
StepOps ==
    {"iter_leaves_next", "iter_leaves_prev", "iter_parents_next",
     "preorder_walk_next", "preorder_walk_prev",
     "postorder_walk_next", "postorder_walk_prev"}

\* C21: every step function of an iterator returns the node that is in the
\* current slot after the step, the node whose payload tree_iter_data then
\* reports, or NULL when the current slot is empty.
C21_StepReturnsCurrent ==
    (fault = "none" /\ last.op \in StepOps) =>
        /\ last.ret = iter.current
        /\ tree_iter_data(Mem, ItOf(iter)).ret =
              IF last.ret = NULL THEN NULL ELSE data[last.ret]

\* The node with offset k among the children of the parent of c.
SiblingOf(m, c, k) == m.children[m.parent[c]][k + 1]

\* The last leaf of the subtree of p: the leaf reached by last children only.
LastLeafOf(m, p) ==
    CHOOSE x \in Subtree(m, p) :
        /\ m.children[x] = <<>>
        /\ \A y \in (({x} \cup Ancestors(m, x)) \cap Subtree(m, p)) \ {p} :
              m.idx[y] = Len(m.children[m.parent[y]]) - 1

\* C22, as stated: the predecessor tree_postorder_walk_prev computes for the
\* node c it moves to, c below the root of the walk, is the last leaf of the
\* previous sibling of c if c is not a first child, and the parent of c
\* otherwise.
C22_PostorderPrevAsStated ==
    (/\ fault = "none"
     /\ last.op = "postorder_walk_prev"
     /\ iter.current # NULL
     /\ iter.current # iter.t)
    => LET c == iter.current
       IN iter.prev = IF idx[c] > 0
                      THEN LastLeafOf(Mem, SiblingOf(Mem, c, idx[c] - 1))
                      ELSE parent[c]

\* The nodes from c up to the root t of the walk, t left out, that are not a
\* first child.
NotFirstUp(m, c, t) ==
    {y \in (({c} \cup Ancestors(m, c)) \cap Subtree(m, t)) \ {t} : m.idx[y] > 0}

\* C22, amended: the predecessor tree_postorder_walk_prev computes for the
\* node c it moves to is the last child of c if c has children; otherwise it
\* is the previous sibling itself of the nearest node, among c and its
\* ancestors below the root of the walk, that is not a first child, and none
\* if there is no such node.
C22_PostorderPrevRule ==
    (/\ fault = "none"
     /\ last.op = "postorder_walk_prev"
     /\ iter.current # NULL)
    => LET c == iter.current
           U == NotFirstUp(Mem, c, iter.t)
           y == CHOOSE x \in U : \A z \in U : z = x \/ z \in Ancestors(Mem, x)
       IN iter.prev = IF children[c] # <<>> THEN children[c][Len(children[c])]
                      ELSE IF U = {} THEN NULL
                      ELSE SiblingOf(Mem, y, idx[y] - 1)

\* C22 witness: a retreat has moved to a leaf that is a first child, whose
\* parent is the second child of its own parent: the predecessor is the first
\* child of that parent.
C22_Witness ==
    /\ Returned("postorder_walk_prev")
    /\ iter.current # NULL /\ iter.current # iter.t
    /\ children[iter.current] = <<>>
    /\ idx[iter.current] = 0
    /\ parent[iter.current] # iter.t
    /\ idx[parent[iter.current]] = 1
    /\ iter.prev = SiblingOf(Mem, parent[iter.current], 0)

\* The leaves of the subtree of t.
LeavesOf(m, t) == {x \in Subtree(m, t) : tree_is_leaf(m, x)}

\* a is to the left of b: below some node, a is under an earlier child than b.
LeftOf(m, a, b) ==
    \E x \in {a} \cup Ancestors(m, a), y \in {b} \cup Ancestors(m, b) :
        /\ x # y
        /\ m.parent[x] # NULL /\ m.parent[x] = m.parent[y]
        /\ m.idx[x] < m.idx[y]

\* C23: tree_iter_leaves_first(i, t) on a new iterator and
\* tree_iter_leaves_next until tree_iter_has_next is false yield the leaves of
\* the subtree of t, each once and nothing else, from left to right.
C23_LeavesForwardPass ==
    PassDone("leaves") =>
        LET q == iter.seq
            L == LeavesOf(Mem, iter.t)
        IN /\ Len(q) = Cardinality(L)
           /\ Range(q) = L
           /\ \A a \in 1..Len(q) : tree_is_leaf(Mem, q[a])
           /\ \A a, b \in 1..Len(q) : a < b => LeftOf(Mem, q[a], q[b])

\* C23 witness: a pass over a tree with two leaves, the first a child of the
\* root of the walk, the second a grandchild.
C23_Witness ==
    /\ PassDone("leaves")
    /\ Len(iter.seq) = 2
    /\ parent[iter.seq[1]] = iter.t
    /\ parent[iter.seq[2]] # iter.t

\* The nodes returned by tree_iter_leaves_next, called on it while
\* tree_iter_has_next is true.
RECURSIVE leaves_forward(_, _, _)
leaves_forward(m, it, fuel) ==
    IF ~tree_iter_has_next(it) \/ fuel = 0 THEN <<>>
    ELSE LET r == tree_iter_leaves_next(m, it)
         IN <<r.ret>> \o leaves_forward(m, r.it, fuel - 1)

\* The forward pass over the leaves of t, on a new iterator.
ForwardLeaves(m, t) ==
    leaves_forward(m, tree_iter_leaves_first(m, tree_iter_alloc, t).it, MaxNodes)

Reverse(q) == [k \in 1..Len(q) |-> q[Len(q) + 1 - k]]

\* A backward pass over the leaves of a tree t, begun by
\* tree_iter_leaves_last, has come to its end: tree_iter_has_prev is false.
BackDone ==
    /\ fault = "none"
    /\ iter.walk = "leaves"
    /\ iter.bwd
    /\ iter.t # NULL
    /\ ~tree_iter_has_prev(ItOf(iter))

\* C24: tree_iter_leaves_last(i, t) on a new iterator and
\* tree_iter_leaves_prev until tree_iter_has_prev is false yield the leaves of
\* the subtree of t, each once, from right to left: the reverse of what the
\* forward pass from tree_iter_leaves_first yields.
C24_LeavesBackwardPass ==
    BackDone =>
        LET q == iter.seq
            L == LeavesOf(Mem, iter.t)
        IN /\ Len(q) = Cardinality(L)
           /\ Range(q) = L
           /\ \A a, b \in 1..Len(q) : a < b => LeftOf(Mem, q[b], q[a])
           /\ q = Reverse(ForwardLeaves(Mem, iter.t))

\* C24 witness: a backward pass over a tree with two leaves, the last a
\* grandchild of the root of the walk, the first a child.
C24_Witness ==
    /\ BackDone
    /\ Len(iter.seq) = 2
    /\ parent[iter.seq[1]] # iter.t
    /\ parent[iter.seq[2]] = iter.t

\* The node a walk of the ancestor chain made by forward steps was begun at.
ChainStart == IF iter.seq = <<>> THEN iter.next ELSE iter.seq[1]

\* C25: after tree_iter_parents(i, t, n) with n in the subtree of t, the
\* calls of tree_iter_parents_next yield n, then its parent, and so on up to
\* t and no further; tree_iter_has_next is true until t has been yielded and
\* false from then on, further calls yield nothing, and the walk has then
\* yielded tree_depth(t, n) + 1 nodes.
C25_AncestorChain ==
    (/\ fault = "none"
     /\ iter.walk = "parents"
     /\ iter.fwd
     /\ ChainStart \in Subtree(Mem, iter.t))
    => LET q == iter.seq
           it == ItOf(iter)
           r == tree_iter_parents_next(Mem, it)
       IN /\ q # <<>> => q[1] = ChainStart
          /\ \A k \in 2..Len(q) : q[k] = parent[q[k - 1]]
          /\ \A a, b \in 1..Len(q) : a < b => q[a] # q[b]
          /\ Range(q) \subseteq Subtree(Mem, iter.t)
          /\ tree_iter_has_next(it) <=> (q = <<>> \/ q[Len(q)] # iter.t)
          /\ ~tree_iter_has_next(it) =>
                /\ Len(q) = tree_depth(Mem, iter.t, ChainStart).ret + 1
                /\ Len(q) = Links(Mem, ChainStart, iter.t) + 1
                /\ r.st = "ok" /\ r.ret = NULL /\ ~tree_iter_has_next(r.it)
                /\ last.op = "iter_parents_next" =>
                      last.ret = IF iter.current = NULL THEN NULL ELSE iter.t

\* C25 witness: a walk from a grandchild of t up to t has ended, t having a
\* parent of its own that was not yielded.
C25_Witness ==
    /\ fault = "none"
    /\ iter.walk = "parents" /\ iter.fwd
    /\ ~tree_iter_has_next(ItOf(iter))
    /\ Len(iter.seq) = 3
    /\ iter.seq[3] = iter.t
    /\ parent[iter.t] # NULL

\* The first leaf of the subtree of p: the leaf reached by first children only.
FirstLeafOf(m, p) ==
    CHOOSE x \in Subtree(m, p) :
        /\ m.children[x] = <<>>
        /\ \A y \in (({x} \cup Ancestors(m, x)) \cap Subtree(m, p)) \ {p} : m.idx[y] = 0

\* The first and the last node of a walk over the subtree of t.
FirstOfWalk(m, walk, t) == IF walk = "preorder" THEN t ELSE FirstLeafOf(m, t)

LastOfWalk(m, walk, t) == IF walk = "postorder" THEN t ELSE LastLeafOf(m, t)

\* C26: in a leaves, preorder or postorder walk begun on a node t, whatever
\* advances and retreats are made, the prev, current and next slots hold
\* nodes of the subtree of t or nothing; an advance leaves next empty exactly
\* when the node it moved to is the last of the walk over that subtree, and a
\* retreat leaves prev empty exactly when the node it moved to is the first.
C26_SubtreeContainment ==
    (/\ fault = "none"
     /\ iter.walk \in {"leaves", "preorder", "postorder"}
     /\ iter.t # NULL)
    => /\ {iter.prev, iter.current, iter.next} \subseteq Subtree(Mem, iter.t) \cup {NULL}
       /\ (/\ last.op \in {"iter_leaves_next", "preorder_walk_next",
                           "postorder_walk_next"}
           /\ iter.current # NULL)
          => (iter.next = NULL <=> iter.current = LastOfWalk(Mem, iter.walk, iter.t))
       /\ (/\ last.op \in {"iter_leaves_prev", "preorder_walk_prev",
                           "postorder_walk_prev"}
           /\ iter.current # NULL)
          => (iter.prev = NULL <=> iter.current = FirstOfWalk(Mem, iter.walk, iter.t))

\* C26 witness: a postorder walk on a node t that has a child, a parent and a
\* right sibling has advanced to t, and the next slot is empty.
C26_Witness ==
    /\ Returned("postorder_walk_next")
    /\ iter.t # NULL
    /\ iter.current = iter.t
    /\ iter.next = NULL
    /\ children[iter.t] # <<>>
    /\ parent[iter.t] # NULL
    /\ idx[iter.t] = 0
    /\ Len(children[parent[iter.t]]) = 2

\* The advance steps and the retreat steps tree.c has: there is no retreat
\* for the walk of the ancestor chain.
Advance == IterLeavesNext \/ IterParentsNext \/ PreorderWalkNext \/ PostorderWalkNext

Retreat == IterLeavesPrev \/ PreorderWalkPrev \/ PostorderWalkPrev

\* What the advance and the retreat of the protocol of the walk do to the
\* iterator as it is.
AdvanceOf(m, x) ==
    IF x.walk = "leaves" THEN tree_iter_leaves_next(m, ItOf(x))
    ELSE IF x.walk = "parents" THEN tree_iter_parents_next(m, ItOf(x))
    ELSE IF x.walk = "preorder" THEN tree_preorder_walk_next(m, ItOf(x))
    ELSE tree_postorder_walk_next(m, ItOf(x))

RetreatOf(m, x) ==
    IF x.walk = "leaves" THEN tree_iter_leaves_prev(m, ItOf(x))
    ELSE IF x.walk = "preorder" THEN tree_preorder_walk_prev(m, ItOf(x))
    ELSE tree_postorder_walk_prev(m, ItOf(x))

\* C27, as stated: from every position of each of the four walks an advance
\* and a retreat of its protocol can be made.
C27_BothDirectionsAsStated ==
    (fault = "none" /\ iter.walk # "none") =>
        /\ ENABLED Advance
        /\ ENABLED Retreat

\* C27, amended: from every position of a leaves, preorder or postorder walk
\* an advance and a retreat can be made, and each returns with the slots
\* shifted by one (current to prev and next to current, or current to next and
\* prev to current); the walk of the ancestor chain has an advance only, which
\* never moves back towards the node the walk began at.
C27_Directions ==
    (fault = "none" /\ iter.walk # "none") =>
        LET a == AdvanceOf(Mem, iter)
            r == RetreatOf(Mem, iter)
        IN /\ ENABLED Advance
           /\ a.st = "ok"
           /\ a.it.current = iter.next /\ a.it.prev = iter.current
           /\ iter.walk # "parents" =>
                 /\ ENABLED Retreat
                 /\ r.st = "ok"
                 /\ r.it.current = iter.prev /\ r.it.next = iter.current
           /\ iter.walk = "parents" =>
                 /\ ~ENABLED Retreat
                 /\ a.it.current \notin Range(iter.seq)

\* C27 witness: a retreat of a leaves walk has been made from a position
\* where the prev slot was empty, back to before the first leaf of a tree
\* that is more than one node.
C27_Witness ==
    /\ Returned("iter_leaves_prev")
    /\ iter.t # NULL
    /\ iter.current = NULL /\ iter.prev = NULL
    /\ iter.next = FirstLeafOf(Mem, iter.t)
    /\ iter.next # iter.t

\* The queries and the calls on an iterator.
ReaderOps ==
    StepOps \cup
    {"is_descendant_of", "depth", "level", "abs_root", "parent", "child", "height",
     "iter_leaves_first", "iter_leaves_last", "iter_parents", "preorder_walk",
     "postorder_walk", "iter_data"}

\* C28: no query and no initializer or step function of an iterator changes
\* the parent, the children, the out-degree, the index, the height or the
\* payload of any node, nor which nodes are allocated; a query leaves the
\* iterator as it is too.
C28_ReadersFrame ==
    [][(last'.op \in ReaderOps /\ fault' = "none") =>
          /\ MemNext = Mem
          /\ last'.op \notin StepOps \cup {"iter_leaves_first", "iter_leaves_last",
                                           "iter_parents", "preorder_walk",
                                           "postorder_walk"}
                => ItOf(iter') = ItOf(iter)]_vars

\* C28 witness: tree_child has returned the second child of a node that has
\* a parent of its own.
C28_Witness ==
    /\ Returned("child")
    /\ last.i = 1
    /\ last.ret # NULL
    /\ parent[last.ret] = last.n
    /\ parent[last.n] # NULL

\* C29: after any sequence of public calls that returned, the parent field
\* of every allocated node and every slot [0, out_degree) of its children
\* array is NULL (the parent only) or refers to an allocated node, never to
\* one that has been released.
C29_NoDanglingReferences ==
    fault = "none" =>
        \A n \in live :
            /\ parent[n] \in live \cup {NULL}
            /\ Range(children[n]) \subseteq live

\* C30: in a forest, for every call tree_insert_subtree(n, t, i) that passes
\* the tests of line 445 and grows the array, with 0 <= i <= out_degree(n)
\* and any out-degree (0 included), the loop that shifts the children ends
\* without its unsigned counter wrapping below zero, and it reads and writes
\* slots [0, out_degree(n)] of the children array only.
C30_ShiftLoopInBounds ==
    [][(/\ Called("insert_subtree")
        /\ WellFormed(Mem)
        /\ last'.t # NULL
        /\ last'.mem
        /\ parent[last'.t] = NULL
        /\ last'.i <= tree_out_degree(Mem, last'.n))
       => LET n == last'.n
              od == tree_out_degree(Mem, n)
              g == tree_children_grow_min_size(Mem, n, od + 1, TRUE)
              sh == insert_shift(g.m, n, Append(g.m.children[n], NULL),
                                 (od - 1) % UIntMod, last'.i)
          IN /\ (od - 1) % UIntMod = od - 1
             /\ sh.st = "ok"]_vars

\* The advance and the retreat steps of the leaves, preorder and postorder
\* walks.
NextOps == {"iter_leaves_next", "preorder_walk_next", "postorder_walk_next"}

PrevOps == {"iter_leaves_prev", "preorder_walk_prev", "postorder_walk_prev"}

\* The three slots of the iterator are empty.
AllEmpty(x) == x.prev = NULL /\ x.current = NULL /\ x.next = NULL

\* C31: in a leaves, preorder or postorder walk, an advance made while
\* current and next are empty, and a retreat made while current and prev are
\* empty, leave the three slots empty; every advance and retreat made with the
\* three slots empty returns NULL and leaves them empty; and after a single
\* advance past the last node one retreat makes that node current again.
C31_EndStatesAbsorbing ==
    [][(fault = "none" /\ fault' = "none" /\ last'.op \in NextOps \cup PrevOps) =>
          /\ (last'.op \in NextOps /\ iter.current = NULL /\ iter.next = NULL)
                => AllEmpty(iter')
          /\ (last'.op \in PrevOps /\ iter.current = NULL /\ iter.prev = NULL)
                => AllEmpty(iter')
          /\ AllEmpty(iter) => (AllEmpty(iter') /\ last'.ret = NULL)
          /\ (last'.op \in NextOps /\ iter.current # NULL /\ iter.next = NULL)
                => LET r == RetreatOf(MemNext, iter')
                   IN /\ iter'.current = NULL /\ iter'.next = NULL
                      /\ r.st = "ok"
                      /\ r.it.current = iter.current]_vars

\* C31 witness: a forward pass of a preorder walk over a tree of more than one
\* node has yielded every node, and a second advance past the end has left
\* the three slots empty.
C31_Witness ==
    /\ Returned("preorder_walk_next")
    /\ iter.fwd
    /\ iter.t # NULL /\ children[iter.t] # <<>>
    /\ Len(iter.seq) = Cardinality(Subtree(Mem, iter.t))
    /\ AllEmpty(iter)

\* The initializers of the walks.
InitOps ==
    {"iter_leaves_first", "iter_leaves_last", "iter_parents", "preorder_walk",
     "postorder_walk"}

\* What the initializer op, called with the tree t (and the node n, for
\* tree_iter_parents), makes of an iterator it.
InitOf(m, op, it, t, n) ==
    IF op = "iter_leaves_first" THEN tree_iter_leaves_first(m, it, t)
    ELSE IF op = "iter_leaves_last" THEN tree_iter_leaves_last(m, it, t)
    ELSE IF op = "iter_parents" THEN tree_iter_parents(m, it, t, n)
    ELSE IF op = "preorder_walk" THEN tree_preorder_walk(m, it, t)
    ELSE tree_postorder_walk(m, it, t)

\* C32: right after an initializer, the t, prev, current and next slots of
\* the iterator are those the same call makes of a new iterator, however the
\* iterator was used before; so tree_iter_has_prev is false right after
\* tree_iter_leaves_first.
C32_InitializersReset ==
    (fault = "none" /\ last.op \in InitOps) =>
        /\ ItOf(iter) = InitOf(Mem, last.op, tree_iter_alloc, iter.t, iter.next).it
        /\ last.op = "iter_leaves_first" => ~tree_iter_has_prev(ItOf(iter))

----------------------------------------------------------------------------
\* The hash table and the sorted array.

\* The entries of the table: every position of every chain.
EntriesOf(t) ==
    UNION {{[chain |-> c, pos |-> p] : p \in 1..Len(t.table[c])} : c \in DOMAIN t.table}

PairAt(t, e) == t.table[e.chain][e.pos]

\* The key/value pairs the table stores.
StoredPairs(t) == {PairAt(t, e) : e \in EntriesOf(t)}

\* The entries that hold key k.
EntriesWith(t, k) == {e \in EntriesOf(t) : PairAt(t, e).key = k}

\* C33: while no allocation has failed, the table is the finite map its
\* calls describe: hash_table_lookup(k) is the value of the last insert of
\* k that no remove has followed, HASH_TABLE_NULL if there is none;
\* hash_table_num_entries is the number of keys in the map; and a key of the
\* map is held by exactly one entry, in the chain hash(k) mod table_size, a
\* key outside the map by none.  Enlargements are among the steps.
C33_RefinesFiniteMap ==
    (ht.hash_table # NULL /\ habs.nofail) =>
        /\ \A k \in HKeys : hash_table_lookup(ht, k) = habs.val[k]
        /\ hash_table_num_entries(ht) = Cardinality({k \in HKeys : habs.val[k] # NULL})
        /\ \A k \in HKeys :
              IF habs.val[k] = NULL THEN EntriesWith(ht, k) = {}
              ELSE /\ Cardinality(EntriesWith(ht, k)) = 1
                   /\ \A e \in EntriesWith(ht, k) : e.chain = hash_index(ht, k)

\* No allocation has failed; the last insert enlarged the table past the
\* listed sizes; the table holds every key, and two of them in one chain.
C33_Witness ==
    /\ habs.nofail
    /\ hlast.op = "insert" /\ hlast.enl = "ok"
    /\ ht.prime_index = hash_table_num_primes
    /\ ht.entries = MaxKeys
    /\ \E c \in DOMAIN ht.table : Len(ht.table[c]) >= 2

\* C34: a hash_table_insert that returns 0 leaves the stored pairs, the
\* entry count and the result of every lookup as they were; it leaves the
\* table, table_size and prime_index as they were too, unless its
\* enlargement succeeded and the allocation of the entry then failed.
C34_InsertAtomicOnFailure ==
    [][(hlast'.op = "insert" /\ hlast'.ret = 0) =>
          /\ StoredPairs(ht') = StoredPairs(ht)
          /\ ht'.entries = ht.entries
          /\ \A k \in HKeys : hash_table_lookup(ht', k) = hash_table_lookup(ht, k)
          /\ hlast'.enl # "ok" =>
                /\ ht'.table = ht.table
                /\ ht'.table_size = ht.table_size
                /\ ht'.prime_index = ht.prime_index]_vars

\* An insert of a new key has failed after its enlargement of the table,
\* which holds a pair, to the second listed size had succeeded.
C34_Witness ==
    /\ hlast.op = "insert" /\ hlast.ret = 0 /\ hlast.enl = "ok"
    /\ ht.prime_index = 1 /\ ht.table_size = hash_table_primes[2]
    /\ ht.entries >= 1

\* C35: after hash_table_iterate, while the table is not written, the
\* pairs hash_table_iter_next returned while hash_table_iter_has_more was
\* true are stored pairs and no two of them are the same; and once
\* hash_table_iter_has_more is false they are all the stored pairs,
\* hash_table_num_entries of them, and hash_table_iter_next returns the
\* {NULL, NULL} pair.
C35_IterationExhaustive ==
    (ht.hash_table # NULL /\ hiter.on) =>
        /\ \A p, q \in 1..Len(hiter.got) : p # q => hiter.got[p] # hiter.got[q]
        /\ Range(hiter.got) \subseteq StoredPairs(ht)
        /\ hash_table_iter_has_more(HashItOf(hiter)) = 0 =>
              /\ Range(hiter.got) = StoredPairs(ht)
              /\ Len(hiter.got) = hash_table_num_entries(ht)
              /\ hash_table_iter_next(ht, HashItOf(hiter)).pair = NullPair

\* An iteration has returned the pairs of a table that holds every key, two
\* of them in one chain and one in another, and the call after the last pair
\* has returned the {NULL, NULL} pair.
C35_Witness ==
    /\ hiter.on /\ hash_table_iter_has_more(HashItOf(hiter)) = 0
    /\ hlast.op = "iter_next" /\ hlast.pair = NullPair
    /\ Len(hiter.got) = MaxKeys
    /\ \E c, d \in DOMAIN ht.table :
          c # d /\ Len(ht.table[c]) >= 2 /\ Len(ht.table[d]) >= 1

\* C36: while every range passed to sortedarray_remove_range was inside the
\* array, no call has ended in undefined behaviour, the elements at the
\* positions 0..length-1 are in non-decreasing order under cmp_func, each
\* value is there as often as it was inserted and not removed, and length
\* is at most _alloced.
C36_SortedArrayInvariant ==
    (sa.sortedarray # NULL /\ sabs.valid) =>
        /\ slast.fault = "none"
        /\ \A p, q \in 0..(sa.length - 1) :
              p < q => cmp_func(sa.data[p], sa.data[q]) <= 0
        /\ BagOf(Elements(sa)) = sabs.bag
        /\ sa.length <= sa._alloced

\* The block of the array has grown to four slots, and a range of two
\* elements has been removed after the first of three, which leaves one.
C36_Witness ==
    /\ sabs.valid
    /\ slast.op = "remove_range" /\ slast.index = 1 /\ slast.length = 2
    /\ sa._alloced = 4 /\ sa.length = 1

====
